---- MODULE Spec2Model ----
(***************************************************************************)
(* A model of the stderr parser of jhsiao.ffmpeg (package eparse):         *)
(* Stream / VideoStream (eparse/stream.py), IO (eparse/ffio.py),           *)
(* StreamMap (eparse/streammap.py), BlockIter (eparse/blockiter.py),       *)
(* RewindIt (its.py) and the driver FFmpegEParser (eparse/eparse.py).      *)
(*                                                                         *)
(* Text is a sequence of lexemes (strings): a digit is one lexeme, a name  *)
(* is made of one or more syllables, a parenthesised or bracketed group is *)
(* one lexeme.  A regular expression becomes a matcher on such sequences.  *)
(* An optional value is a sequence of length 0 (None) or 1.                *)
(***************************************************************************)
EXTENDS Integers, Sequences, FiniteSets, TLC

VARIABLES
    codecs,      \* Codecs(): names of the -codecs listing, in listing order
    pixfmts,     \* PixFmts(): names of the -pix_fmts listing, in listing order
    sline,       \* Stream.parse: the line being parsed
    sobj,        \* Stream.parse: the record under construction / returned
    spc,         \* Stream.parse: position in the code
    sit,         \* Stream.__init__: number of fields the iterator `it` has yielded
    sk,          \* Stream.__init__: number of attrs already handled
    iblock,      \* IO.parse: the block being parsed
    ipc,         \* IO.parse: position in the code
    im,          \* IO.parse: the index of the pattern that matched (m)
    ii,          \* IO.parse: number of lines of the block consumed
    ilist,       \* IO.parse: the stream records collected so far (streams)
    ires,        \* IO.parse: what the call returned or raised
    transcript,  \* FFmpegEParser: the lines the underlying iterator holds
    verbose,     \* FFmpegEParser: the verbose argument
    history,     \* RewindIt.history
    pos,         \* RewindIt.pos
    eof,         \* the underlying iterator has raised StopIteration
    block,       \* FFmpegEParser: the local `block` (BlockIter's output so far)
    streammap,   \* FFmpegEParser.streammap
    ins,         \* FFmpegEParser.ins
    outs,        \* FFmpegEParser.outs
    istreams,    \* FFmpegEParser: local set istreams
    ostreams,    \* FFmpegEParser: local set ostreams
    itargets,    \* FFmpegEParser: local set itargets
    otargets,    \* FFmpegEParser: local set otargets
    stderr,      \* what sys.stderr.writelines has written
    pc           \* FFmpegEParser: position in the code, or how it ended

streamVars == <<sline, sobj, spc, sit, sk>>
ioVars == <<iblock, ipc, im, ii, ilist, ires>>
vocabVars == <<codecs, pixfmts>>
sourceVars == <<transcript, verbose, history, pos, eof>>
parserVars == <<streammap, ins, outs, istreams, ostreams, itargets, otargets>>
epVars == <<sourceVars, block, parserVars, stderr, pc>>
firstVars == <<vocabVars, streamVars, ioVars, epVars>>

VARIABLES
    mblock,      \* StreamMap.parse: the block being parsed
    mpc,         \* StreamMap.parse: position in the code
    mi,          \* StreamMap.parse: number of lines of the block consumed
    mlist,       \* StreamMap.parse: the pairs of the matches so far
    mres         \* StreamMap.parse: what the call returned

mapVars == <<mblock, mpc, mi, mlist, mres>>

VARIABLES
    listing,     \* what `ffmpeg <flag>` prints, per flag
    invoked,     \* number of times sp.Popen(['ffmpeg', flag]) has run, per flag
    heap,        \* the mapping objects created so far; an object is its index
    cache,       \* Info._cache: per flag the object stored, 0 for no entry
    tflag,       \* per construction: the flag argument
    tpc,         \* per construction: position in Info.__init__, or how it ended
    tinfo        \* per construction: self.info, 0 while unset

infoVars == <<listing, invoked, heap, cache, tflag, tpc, tinfo>>

VARIABLES
    fdesc,       \* frameinfo's pix_fmt argument: the descriptor of a format
    fwidth,      \* frameinfo's width argument
    fheight,     \* frameinfo's height argument
    fpc,         \* "call" before frameinfo has run, "return" after
    fres         \* what frameinfo returned or raised

frameVars == <<fdesc, fwidth, fheight, fpc, fres>>

FrameIdle ==
    /\ fdesc = <<>> /\ fwidth = 0 /\ fheight = 0 /\ fpc = "idle" /\ fres = <<>>

VARIABLES
    readerOuts,  \* self.streaminfo.outs when FFmpegReader.__init__ reaches line 137
    candidate,   \* the local candidate: None or the stream chosen
    rpc,         \* position in FFmpegReader.__init__, or how it ended
    rmsg         \* the message of the ValueError raised, as its pieces

readerVars == <<readerOuts, candidate, rpc, rmsg>>

ReaderIdle ==
    /\ readerOuts = <<>> /\ candidate = <<>> /\ rpc = "idle" /\ rmsg = <<>>

VARIABLES
    ppc,         \* FFmpegProc.__init__: "idle" until the parser has ended, then how it ended
    eforward     \* self.eforward: None, or the sink of the forwarder

procVars == <<ppc, eforward>>

ProcIdle == ppc = "idle" /\ eforward = <<>>

VARIABLES
    options,     \* self.data: the value of the property for each option, in order
    desired,     \* the value of the property for the target
    prefix,      \* the flags of the single preference, in the order written
    dpc,         \* "call" before prefer has run, "return" after
    selected     \* what prefer returned or raised

deviceVars == <<options, desired, prefix, dpc, selected>>

DeviceIdle ==
    /\ options = <<>> /\ desired = 0 /\ prefix = <<>> /\ dpc = "idle" /\ selected = <<>>

VARIABLES
    data,        \* the lines the PreIt is made of
    taken,       \* PreIt.it: how many lines of data have been taken from it
    preStack,    \* PreIt.pre: the stack of pushed-back lines
    passblock,   \* the lines the running pass has yielded
    blocks,      \* list(BlockIter(pre)) of the passes that are over, in order
    bpc          \* position in BlockIter.__iter__

blockVars == <<data, taken, preStack, passblock, blocks, bpc>>

BlockIdle ==
    /\ data = <<>> /\ taken = 0 /\ preStack = <<>> /\ passblock = <<>> /\ blocks = <<>>
    /\ bpc = "idle"

VARIABLES
    gens,        \* the generators made by iter() on one PreIt: "live" or "ended"
    plog         \* what happened to the PreIt so far: pushes, yields and ends, in order

preitVars == <<gens, plog>>

PreItIdle == gens = <<>> /\ plog = <<>>

VARIABLES
    rwSource,    \* the items of the iterable a RewindIt is made of
    rwHistory,   \* RewindIt.history
    rwPos,       \* RewindIt.pos
    rwGens,      \* the generators made by iter() on the RewindIt: "live" or "ended"
    rwLog        \* the calls so far and what they gave, in order

rewindVars == <<rwSource, rwHistory, rwPos, rwGens, rwLog>>

RewindIdle ==
    /\ rwSource = <<>> /\ rwHistory = <<>> /\ rwPos = 0 /\ rwGens = <<>> /\ rwLog = <<>>

VARIABLES
    lkClass,     \* the class of the object looked up in: Info, PixFmts or Codecs
    lkInfo,      \* self.info, the mapping that Info._cache holds for the flag
    lkAsCached,  \* the mapping as it was when the listing was cached
    lkRet,       \* what the last lookup returned
    lkCalls      \* the lookups so far, in order

lookupVars == <<lkClass, lkInfo, lkAsCached, lkRet, lkCalls>>

LookupIdle ==
    /\ lkClass = "" /\ lkInfo = <<>> /\ lkAsCached = <<>> /\ lkRet = <<>> /\ lkCalls = <<>>

VARIABLES
    condOwner,   \* the thread that holds the lock of Debuffer.cond, or None
    condWaiters, \* the readers blocked in cond.wait()
    updated,     \* Debuffer._updated
    running,     \* Debuffer._running
    capOpen,     \* Debuffer.cap is the capture (detach sets it to None)
    capBusy,     \* the calls of the capture in progress: "grab", "retrieve"
    grabs,       \* the frames grabbed so far; the last one is what retrieve decodes
    gpc,         \* where the grab thread is
    rdpc,        \* where each reader is
    owpc,        \* where the thread that made the Debuffer is
    reads        \* what the read() calls returned, in order of return

debufVars ==
    <<condOwner, condWaiters, updated, running, capOpen, capBusy, grabs, gpc,
      rdpc, owpc, reads>>

DebufIdle ==
    /\ condOwner = <<>> /\ condWaiters = {} /\ updated = FALSE /\ running = FALSE
    /\ capOpen = FALSE /\ capBusy = {} /\ grabs = 0 /\ gpc = "idle" /\ rdpc = <<>>
    /\ owpc = "idle" /\ reads = <<>>

VARIABLES
    cobj,        \* the FFmpegProc, FFmpegReader or FFmpegWriter being closed
    clog         \* the closing calls so far: how each was made, how it ended
                 \* and the object after it

closeVars == <<cobj, clog>>

CloseIdle ==
    /\ cobj = <<>> /\ clog = <<>>

\* the state of the components that have a specification of their own below
laterVars == <<mapVars, infoVars, frameVars, readerVars, procVars, deviceVars, blockVars, preitVars, rewindVars, lookupVars, debufVars, closeVars>>

vars == <<firstVars, laterVars>>

MapIdle ==
    /\ mblock = <<>> /\ mpc = "idle" /\ mi = 0 /\ mlist = <<>>
    /\ mres = [st |-> "None", mappings |-> <<>>]

InfoIdle ==
    /\ listing = <<>> /\ invoked = <<>> /\ heap = <<>> /\ cache = <<>>
    /\ tflag = <<>> /\ tpc = <<>> /\ tinfo = <<>>

LaterIdle == MapIdle /\ InfoIdle /\ FrameIdle /\ ReaderIdle /\ ProcIdle /\ DeviceIdle /\ BlockIdle /\ PreItIdle /\ RewindIdle /\ LookupIdle /\ DebufIdle /\ CloseIdle

None == <<>>
Some(x) == <<x>>
IsNone(o) == o = <<>>
Get(o) == o[1]

Min(S) == CHOOSE x \in S : \A y \in S : x <= y

----------------------------------------------------------------------------
(* Lexemes *)

Digits == {"0", "1", "2", "3", "4", "5", "6", "7", "8", "9"}

DigitVal(c) ==
    CASE c = "0" -> 0 [] c = "1" -> 1 [] c = "2" -> 2 [] c = "3" -> 3
      [] c = "4" -> 4 [] c = "5" -> 5 [] c = "6" -> 6 [] c = "7" -> 7
      [] c = "8" -> 8 [] c = "9" -> 9

\* int(s) for a string of decimal digits
RECURSIVE ToInt(_)
ToInt(t) ==
    IF t = <<>> THEN 0
    ELSE 10 * ToInt(SubSeq(t, 1, Len(t) - 1)) + DigitVal(t[Len(t)])

\* length of the longest run of digits of t starting at position i (regex \d+)
RECURSIVE DigitRun(_, _)
DigitRun(t, i) ==
    IF i <= Len(t) /\ t[i] \in Digits THEN 1 + DigitRun(t, i + 1) ELSE 0

\* regex \d+ matching the whole of t
IsDigits(t) == t # <<>> /\ DigitRun(t, 1) = Len(t)

\* regex \s* at the start of a field
RECURSIVE SkipWs(_)
SkipWs(t) ==
    IF t # <<>> /\ t[1] = " " THEN SkipWs(Tail(t)) ELSE t

IsPrefix(p, t) == Len(p) <= Len(t) /\ SubSeq(t, 1, Len(p)) = p

\* str.split('x') of a text
RECURSIVE SplitAt(_, _)
SplitAt(t, sep) ==
    LET hits == {i \in 1..Len(t) : t[i] = sep}
    IN  IF hits = {} THEN <<t>>
        ELSE <<SubSeq(t, 1, Min(hits) - 1)>>
             \o SplitAt(SubSeq(t, Min(hits) + 1, Len(t)), sep)

----------------------------------------------------------------------------
(* eparse/stream.py *)

\* Stream.streaminfo.findall(info): the fields of the info tail, each up to
\* and including its comma; a parenthesised group is one lexeme and so never
\* splits a field.
RECURSIVE FindAll(_)
FindAll(t) ==
    LET hits == {i \in 1..Len(t) : t[i] = ","}
    IN  IF t = <<>> THEN <<>>
        ELSE IF hits = {} THEN <<t>>
        ELSE <<SubSeq(t, 1, Min(hits))>>
             \o FindAll(SubSeq(t, Min(hits) + 1, Len(t)))

\* re.compile(r'\s*(?P<x>{})'.format('|'.join(vocab))).match(field):
\* the alternatives are tried in vocabulary order and the first one that
\* matches at the start of the field is the group, whatever follows it.
MatchVocab(vocab, field) ==
    LET f == SkipWs(field)
        hits == {i \in 1..Len(vocab) : IsPrefix(vocab[i], f)}
    IN  IF hits = {} THEN None ELSE Some(vocab[Min(hits)])

\* re.compile(r'\s*(?P<shape>\d+x\d+)').match(field)
MatchShape(field) ==
    LET f == SkipWs(field)
        n == DigitRun(f, 1)
        m == DigitRun(f, n + 2)
    IN  IF n >= 1 /\ Len(f) >= n + 1 /\ f[n + 1] = "x" /\ m >= 1
        THEN Some(SubSeq(f, 1, n + 1 + m)) ELSE None

\* MatchFps with a pattern that knows 'fps' only
MatchFps_FpsOnly(field) ==
    LET f == SkipWs(field)
        n == DigitRun(f, 1)
    IN  IF n >= 1 /\ Len(f) >= n + 2 /\ f[n + 1] = " " /\ f[n + 2] = "fps"
        THEN Some(SubSeq(f, 1, n)) ELSE None

\* re.compile(r'\s*(?P<fps>\d+) (?:fps|tbr)').match(field)
MatchFps(field) ==
    LET f == SkipWs(field)
        n == DigitRun(f, 1)
    IN  IF n >= 1 /\ Len(f) >= n + 2 /\ f[n + 1] = " "
           /\ f[n + 2] \in {"fps", "tbr"}
        THEN Some(SubSeq(f, 1, n)) ELSE None

\* VideoStream.attrs
VideoAttrs == <<"codec", "pix_fmt", "shape", "fps">>

\* AudioStream / Stream: attrs = []
AttrsOf(tp) == IF tp = "Video" THEN VideoAttrs ELSE <<>>

\* pat.match(item) for the pattern of attribute attr
MatchAttr(attr, field, cs, ps) ==
    CASE attr = "codec" -> MatchVocab(cs, field)
      [] attr = "pix_fmt" -> MatchVocab(ps, field)
      [] attr = "shape" -> MatchShape(field)
      [] attr = "fps" -> MatchFps(field)

\* Scan with an iterator of its own for every attribute
ScanFromStart(attr, info, k, cs, ps) ==
    LET hits == {j \in 1..Len(info) :
                    ~IsNone(MatchAttr(attr, info[j], cs, ps))}
    IN  IF hits = {} THEN [val |-> None, pos |-> Len(info)]
        ELSE [val |-> MatchAttr(attr, info[Min(hits)], cs, ps),
              pos |-> Min(hits)]

\* The inner loop of Stream.__init__, `for item in it`: the iterator has
\* yielded k fields; the result is the first match among the fields not yet
\* yielded and the number of fields yielded afterwards (all of them when
\* nothing matches: the for-else branch).
Scan(attr, info, k, cs, ps) ==
    LET hits == {j \in (k + 1)..Len(info) :
                    ~IsNone(MatchAttr(attr, info[j], cs, ps))}
    IN  IF hits = {} THEN [val |-> None, pos |-> Len(info)]
        ELSE [val |-> MatchAttr(attr, info[Min(hits)], cs, ps),
              pos |-> Min(hits)]

\* Stream.stream.match(line): leading whitespace, 'Stream #<int>:<int>',
\* an optional tag, a type token and the info tail.
StreamMatch(line) == line.kind = "stream" /\ line.lead # ""

ClassOfVideoOnly(tp) ==
    IF tp = "Video" THEN "VideoStream" ELSE "Stream"

\* the class Stream.parse instantiates for a type token
ClassOf(tp) ==
    IF tp = "Video" THEN "VideoStream"
    ELSE IF tp = "Audio" THEN "AudioStream" ELSE "Stream"

\* The object before its attributes are set (Stream.__init__, lines 35-37)
NewStream(line) ==
    [st |-> "init", cls |-> ClassOf(line.type), name |-> line.name,
     type |-> line.type, info |-> FindAll(line.info),
     codec |-> None, pix_fmt |-> None, shape |-> None, fps |-> None,
     ifps |-> None, width |-> None, height |-> None]

NoStream ==
    [st |-> "None", cls |-> "", name |-> "", type |-> "", info |-> <<>>,
     codec |-> None, pix_fmt |-> None, shape |-> None, fps |-> None,
     ifps |-> None, width |-> None, height |-> None]

SetAttr(o, attr, v) ==
    CASE attr = "codec" -> [o EXCEPT !.codec = v]
      [] attr = "pix_fmt" -> [o EXCEPT !.pix_fmt = v]
      [] attr = "shape" -> [o EXCEPT !.shape = v]
      [] attr = "fps" -> [o EXCEPT !.fps = v]

\* VideoStream.__init__ after super().__init__: shape.split('x') raises
\* AttributeError when shape is None.
VideoFinish(o) ==
    IF IsNone(o.shape) THEN [o EXCEPT !.st = "AttributeError"]
    ELSE LET wh == SplitAt(Get(o.shape), "x")
         IN  [o EXCEPT !.st = "ok",
                       !.width = Some(ToInt(wh[1])),
                       !.height = Some(ToInt(wh[2])),
                       !.ifps = IF IsNone(o.fps) THEN None
                                ELSE Some(ToInt(Get(o.fps)))]

\* Stream.__init__: the outer loop over attrs, from attribute number a + 1
\* with k fields already yielded.
RECURSIVE InitAttrs(_, _, _, _, _)
InitAttrs(o, a, k, cs, ps) ==
    LET attrs == AttrsOf(o.type) IN
    IF a >= Len(attrs) THEN o
    ELSE LET r == Scan(attrs[a + 1], o.info, k, cs, ps)
         IN  InitAttrs(SetAttr(o, attrs[a + 1], r.val), a + 1, r.pos, cs, ps)

\* the end of the constructor: VideoStream.__init__ lines 79-81, or nothing
Finish(o) == IF o.type = "Video" THEN VideoFinish(o) ELSE [o EXCEPT !.st = "ok"]

\* Stream.parse(line), as a function of the line and the two vocabularies
StreamParse(line, cs, ps) ==
    IF ~StreamMatch(line) THEN NoStream
    ELSE Finish(InitAttrs(NewStream(line), 0, 0, cs, ps))

----------------------------------------------------------------------------
(* eparse/ffio.py *)

\* regex \S+ : a non-empty text without blanks
NoBlank(t) == t # <<>> /\ \A i \in 1..Len(t) : t[i] # " "

\* IO.patterns[i].match(line), i = 1 for Input and 2 for Output:
\*   (?:.*\r|^)  the header starts the line or follows a carriage return
\*   Input #<digits>, <\S+>, from '<name>':   /   Output ... to '<name>':
\*   \r?\n?$     nothing but the line end after the colon
IOPatternWithFrom(i, line) ==
    /\ line.kind = "io"
    /\ line.pre = "cr" \/ (line.pre = "" /\ line.lead = "")
    /\ line.dir = (IF i = 1 THEN "Input" ELSE "Output")
    /\ line.kw = "from"
    /\ IsDigits(line.num)
    /\ NoBlank(line.fmt)
    /\ line.eol \in {"", "\n", "\r\n"}

IOPattern(i, line) ==
    /\ line.kind = "io"
    /\ line.pre = "cr" \/ (line.pre = "" /\ line.lead = "")
    /\ line.dir = (IF i = 1 THEN "Input" ELSE "Output")
    /\ line.kw = (IF i = 1 THEN "from" ELSE "to")
    /\ IsDigits(line.num)
    /\ NoBlank(line.fmt)
    /\ line.eol \in {"", "\n", "\r\n"}

\* IO.parse, lines 59-64: the first pattern that matches block[0], 0 for none
IOHeader(line) ==
    IF IOPattern(1, line) THEN 1 ELSE IF IOPattern(2, line) THEN 2 ELSE 0

TYPE_IN == "In"
TYPE_OUT == "Out"

NoStreams == [n \in {} |-> NoStream]

\* {s.name: s for s in streams}: a later stream replaces an earlier one of
\* the same name
RECURSIVE StreamDict(_)
StreamDict(streams) ==
    IF streams = <<>> THEN NoStreams
    ELSE LET s == streams[Len(streams)]
         IN  (s.name :> s) @@ StreamDict(SubSeq(streams, 1, Len(streams) - 1))

\* IO.__init__
NewIO(type, num, name, streams) ==
    [st |-> "ok", type |-> type, num |-> ToInt(num), name |-> name,
     streams |-> StreamDict(streams)]

NoIO(st) == [st |-> st, type |-> "", num |-> 0, name |-> "", streams |-> NoStreams]

IsStream(o) == o.st = "ok"

\* filter(None, ...) over the records Stream.parse returned; raised is TRUE
\* when Stream.parse raised on a line, which ends the evaluation
FilterStreams(objs) ==
    IF \E j \in 1..Len(objs) : objs[j].st = "AttributeError"
    THEN [raised |-> TRUE, list |-> <<>>]
    ELSE [raised |-> FALSE, list |-> SelectSeq(objs, IsStream)]

\* list(filter(None, map(Stream.parse, lines)))
ParseStreams(lines, cs, ps) ==
    FilterStreams([j \in 1..Len(lines) |-> StreamParse(lines[j], cs, ps)])

\* IO.parse, lines 65-69, i being the pattern that matched block[0] and r
\* the outcome of lines 65-66
IOBuild(i, r, hdr) ==
    IF i = 0 THEN NoIO("None")
    ELSE IF r.raised THEN NoIO("AttributeError")
    ELSE NewIO(IF i = 1 THEN TYPE_IN ELSE TYPE_OUT, hdr.num, hdr.name, r.list)

\* IO.parse(block), block non-empty
IOParse(blk, cs, ps) ==
    IOBuild(IOHeader(blk[1]), ParseStreams(Tail(blk), cs, ps), blk[1])

\* IO.__len__ and the truth value of an IO in `if io:`
IOLen(io) == Cardinality(DOMAIN io.streams)
IOTruth(io) == io.st = "ok" /\ IOLen(io) # 0

\* IO.is_pipe
IsPipe(io) == io.name = "pipe:"

----------------------------------------------------------------------------
(* eparse/streammap.py *)

\* MapHeader without the rstrip()
MapHeaderNoStrip(line) == line.kind = "maphdr" /\ line.trail = ""

\* block[0].rstrip().endswith('Stream mapping:')
MapHeader(line) == line.kind = "maphdr" /\ line.trail \in {"", "\n", " \r\n"}

\* StreamMap.pattern.match(line):
\*   \s+Stream #(?P<iname>\d+:\d+).*\s+->\s+#(?P<oname>\d+:\d+)
\* `.*` is greedy: of the arrows of the line that point at '#<int>:<int>' the
\* last one gives oname.
MapMatch(line) ==
    IF line.kind = "map" /\ line.lead # ""
       /\ \E j \in 1..Len(line.targets) : line.targets[j].hash
    THEN LET j == CHOOSE j \in 1..Len(line.targets) :
                      /\ line.targets[j].hash
                      /\ \A k \in (j + 1)..Len(line.targets) :
                             ~line.targets[k].hash
         IN  Some(<<line.iname, line.targets[j].id>>)
    ELSE None

RECURSIVE MapPairs(_)
MapPairs(lines) ==
    IF lines = <<>> THEN <<>>
    ELSE LET m == MapMatch(lines[1])
         IN  (IF IsNone(m) THEN <<>> ELSE <<Get(m)>>) \o MapPairs(Tail(lines))

NoMap == [st |-> "None", mappings |-> <<>>]

\* StreamMap.parse(block), block non-empty
StreamMapParse(blk) ==
    IF ~MapHeader(blk[1]) THEN NoMap
    ELSE [st |-> "ok", mappings |-> MapPairs(Tail(blk))]

\* StreamMap.__len__ and the truth value of a StreamMap in `if mp:`
MapTruth(mp) == mp.st = "ok" /\ Len(mp.mappings) # 0

----------------------------------------------------------------------------
(* eparse/blockiter.py, its.py and eparse/eparse.py *)

\* blockiter.indented.match(line): the line starts with whitespace
Indented(line) == line.lead # ""

\* RewindIt.__iter__, one turn of its loop, as the item obtained (None when
\* the underlying iterator is exhausted) and the RewindIt afterwards
RewindNext(h, p, src) ==
    IF p < Len(h)
    THEN [obj |-> Some(h[p + 1]), history |-> h, pos |-> p + 1, eof |-> FALSE]
    ELSE IF Len(h) < Len(src)
    THEN [obj |-> Some(src[Len(h) + 1]), history |-> Append(h, src[Len(h) + 1]),
          pos |-> p + 1, eof |-> FALSE]
    ELSE [obj |-> None, history |-> h, pos |-> p, eof |-> TRUE]

\* preit.push(line) in BlockIter.__iter__, line 24, on the RewindIt that
\* FFmpegEParser hands to BlockIter: RewindIt defines rewind and __iter__
\* only, so the attribute lookup raises AttributeError.
PushOnRewindIt == "AttributeError"

\* `if not block: raise ValueError`, lines 32-33
EmptyBlockReturns == "done"
EmptyBlock == "ValueError"

NoIOs == [n \in {} |-> NoIO("None")]

\* the loop condition of FFmpegEParser.__init__, lines 27-29
Continue(P) ==
    \/ P.streammap.st = "None"
    \/ ~(P.itargets \subseteq P.istreams /\ P.otargets \subseteq P.ostreams)

\* lines 37-49, io and mp being what IO.parse and StreamMap.parse returned
Record(P, io, mp) ==
    IF IOTruth(io)
    THEN IF io.type = TYPE_IN
         THEN [P EXCEPT !.ins = (io.num :> io) @@ P.ins,
                        !.istreams = P.istreams \cup DOMAIN io.streams]
         ELSE [P EXCEPT !.outs = (io.num :> io) @@ P.outs,
                        !.ostreams = P.ostreams \cup DOMAIN io.streams]
    ELSE IF MapTruth(mp)
    THEN [P EXCEPT
            !.streammap = mp,
            !.itargets = P.itargets
                \cup {mp.mappings[j][1] : j \in 1..Len(mp.mappings)},
            !.otargets = P.otargets
                \cup {mp.mappings[j][2] : j \in 1..Len(mp.mappings)}]
    ELSE P

\* line 36, and the error of IO.parse if it raises
RecordIO(P, io, blk) ==
    IF io.st = "AttributeError" THEN [P EXCEPT !.err = "AttributeError"]
    ELSE Record(P, io, StreamMapParse(blk))

\* lines 36-49 for a non-empty block: the attributes and locals afterwards;
\* err is "AttributeError" when IO.parse raises
Dispatch(P, blk, cs, ps) == RecordIO(P, IOParse(blk, cs, ps), blk)

NewParser ==
    [streammap |-> NoMap, ins |-> NoIOs, outs |-> NoIOs, istreams |-> {},
     ostreams |-> {}, itargets |-> {}, otargets |-> {}, err |-> ""]

----------------------------------------------------------------------------
(* Inputs of Stream.parse *)

MaxFields == 5

\* Vocabulary names
H264 == <<"h264">>
RAWVIDEO == <<"rawvideo">>
YUV420P == <<"yuv420p">>
YUV420P10LE == <<"yuv420p", "10le">>
BGR24 == <<"bgr24">>

\* VideoStream.attrs joins the names of Codecs() and PixFmts() with '|'; the
\* model takes each vocabulary as the sequence of names so joined.
\* The listing orders considered: ffmpeg lists yuv420p before yuv420p10le; a
\* dict that does not keep insertion order may iterate the other way round.
CodecOrders == {<<H264, RAWVIDEO>>}
ListingOrder == <<YUV420P, YUV420P10LE, BGR24>>
PixOrders == {ListingOrder, <<YUV420P10LE, YUV420P, BGR24>>}

\* Info fields a Video stream line is made of
FieldPool ==
    {<<"h264", " ", "(High)">>,
     <<"zzz">>,
     <<"yuv420p", "(progressive)">>,
     <<"yuv420p", "10le", "(tv)">>,
     <<"6", "4", "x", "4", "8", " ", "[SAR 1:1]">>,
     <<"2", "5", " ", "fps">>,
     <<"3", "0", " ", "tbr">>}

\* ', '.join(fields)
RECURSIVE JoinFields(_)
JoinFields(fs) ==
    IF fs = <<>> THEN <<>>
    ELSE IF Len(fs) = 1 THEN fs[1]
    ELSE fs[1] \o <<",", " ">> \o JoinFields(Tail(fs))

\* sequences of at most n distinct fields of the pool
FieldSeqs(n) ==
    UNION {{f \in [1..m -> FieldPool] :
              \A i, j \in 1..m : i # j => f[i] # f[j]} : m \in 0..n}

StreamLine(lead, name, tp, info) ==
    [kind |-> "stream", lead |-> lead, name |-> name, type |-> tp,
     info |-> info]

OtherLine(lead, text) == [kind |-> "other", lead |-> lead, text |-> text]

VideoLines ==
    {StreamLine("    ", "0:0", "Video", JoinFields(fs)) : fs \in FieldSeqs(MaxFields)}

StreamInputs ==
    VideoLines
    \cup {StreamLine("    ", "0:1", "Audio", <<"aac", " ", "(LC)", ",", " ", "stereo">>),
          StreamLine("    ", "0:2", "Data", <<"bin_data">>),
          StreamLine("", "0:0", "Video", <<"h264">>),
          OtherLine("  ", "Metadata:"),
          OtherLine("", "Press [q] to stop")}

----------------------------------------------------------------------------
(* Stream.parse, step by step *)

\* the variables of the other operations, idle
IOIdle ==
    /\ iblock = <<>> /\ ipc = "idle" /\ im = 0 /\ ii = 0
    /\ ilist = <<>> /\ ires = NoIO("None")

EPIdle ==
    /\ transcript = <<>> /\ verbose = FALSE /\ history = <<>> /\ pos = 0
    /\ eof = FALSE /\ block = <<>> /\ streammap = NoMap
    /\ ins = NoIOs /\ outs = NoIOs
    /\ istreams = {} /\ ostreams = {} /\ itargets = {} /\ otargets = {}
    /\ stderr = <<>> /\ pc = "idle"

StreamIdle ==
    /\ sline = OtherLine("", "") /\ sobj = NoStream /\ spc = "idle"
    /\ sit = 0 /\ sk = 0

StreamInit ==
    /\ LaterIdle
    /\ IOIdle
    /\ EPIdle
    /\ codecs \in CodecOrders
    /\ pixfmts \in PixOrders
    /\ sline \in StreamInputs
    /\ sobj = NoStream
    /\ spc = "parse"
    /\ sit = 0
    /\ sk = 0

\* Stream.parse, lines 52-62 up to the constructor call
SParse ==
    /\ spc = "parse"
    /\ IF StreamMatch(sline)
       THEN sobj' = NewStream(sline) /\ spc' = "attrs"
       ELSE sobj' = NoStream /\ spc' = "done"
    /\ UNCHANGED <<sline, sit, sk, vocabVars, laterVars, ioVars, epVars>>

\* Stream.__init__, one turn of `for attr, pat in self.attrs`
SScanAttr ==
    /\ spc = "attrs"
    /\ sk < Len(AttrsOf(sobj.type))
    /\ LET attr == AttrsOf(sobj.type)[sk + 1]
           r == Scan(attr, sobj.info, sit, codecs, pixfmts)
       IN  /\ sobj' = SetAttr(sobj, attr, r.val)
           /\ sit' = r.pos
    /\ sk' = sk + 1
    /\ UNCHANGED <<sline, spc, vocabVars, laterVars, ioVars, epVars>>

\* the end of the constructor: VideoStream.__init__ lines 79-81, or nothing
SFinish ==
    /\ spc = "attrs"
    /\ sk = Len(AttrsOf(sobj.type))
    /\ sobj' = Finish(sobj)
    /\ spc' = "done"
    /\ UNCHANGED <<sline, sit, sk, vocabVars, laterVars, ioVars, epVars>>

StreamNext ==
    \/ SParse
    \/ SScanAttr
    \/ SFinish

SpecStream == StreamInit /\ [][StreamNext]_vars

----------------------------------------------------------------------------
(* Inputs of IO.parse *)

MaxBlockLines == 3

IOLine(lead, pre, dir, num, fmt, kw, name, eol) ==
    [kind |-> "io", lead |-> lead, pre |-> pre, dir |-> dir, num |-> num,
     fmt |-> fmt, kw |-> kw, name |-> name, eol |-> eol]

MapHdrLine(lead, pre, trail) ==
    [kind |-> "maphdr", lead |-> lead, pre |-> pre, trail |-> trail]

MapLine(lead, iname, targets) ==
    [kind |-> "map", lead |-> lead, iname |-> iname, targets |-> targets]

Target(hash, id) == [hash |-> hash, id |-> id]

MKV == <<"matroska", ",", "webm">>
RAW == <<"rawvideo">>

\* first lines: headers as ffmpeg prints them, and near misses
HeaderPool ==
    {IOLine("", "", "Input", <<"0">>, MKV, "from", "a.mkv", "\n"),
     IOLine("", "", "Input", <<"1", "2">>, MKV, "from", "out.mkv", "\r\n"),
     IOLine("", "", "Output", <<"0">>, RAW, "to", "pipe:", "\n"),
     IOLine("", "", "Output", <<"1">>, RAW, "to", "nul", ""),
     IOLine("", "cr", "Output", <<"0">>, RAW, "to", "pipe:", "\r\n"),
     IOLine("", "txt", "Input", <<"0">>, MKV, "from", "a.mkv", "\n"),
     IOLine("  ", "", "Input", <<"0">>, MKV, "from", "a.mkv", "\n"),
     IOLine("", "", "Input", <<"0">>, MKV, "to", "a.mkv", "\n"),
     IOLine("", "", "Output", <<"0">>, RAW, "from", "pipe:", "\n"),
     IOLine("", "", "Output", <<"0">>, <<"raw", " ", "video">>, "to", "pipe:", "\n"),
     IOLine("", "", "Output", <<"0">>, RAW, "to", "pipe:", " (x)\n"),
     MapHdrLine("", "", "\n"),
     OtherLine("", "ffmpeg version 4.2")}

V_H264 == <<"h264", " ", "(High)", ",", " ", "yuv420p", "(progressive)", ",",
            " ", "6", "4", "x", "4", "8", ",", " ", "2", "5", " ", "fps">>
V_RAW == <<"rawvideo", ",", " ", "bgr24", ",", " ", "3", "2", "x", "2", "4">>
V_NOGEO == <<"h264", ",", " ", "yuv420p", ",", " ", "2", "5", " ", "fps">>
V_NOCODEC == <<"zzz", ",", " ", "bgr24", ",", " ", "3", "2", "x", "2", "4">>

\* lines that follow the first line of a block
BodyPool ==
    {StreamLine("    ", "0:0", "Video", V_H264),
     StreamLine("    ", "0:0", "Video", V_RAW),
     StreamLine("    ", "0:1", "Audio", <<"aac", " ", "(LC)", ",", " ", "stereo">>),
     StreamLine("    ", "0:2", "Video", V_NOGEO),
     StreamLine("    ", "0:4", "Video", V_NOCODEC),
     StreamLine("", "0:3", "Video", V_H264),
     OtherLine("  ", "Metadata:")}

BodySeqs(n) == UNION {[1..m -> BodyPool] : m \in 0..n}

IOInputs == {<<h>> \o b : h \in HeaderPool, b \in BodySeqs(MaxBlockLines)}

----------------------------------------------------------------------------
(* IO.parse, step by step *)

IOInit ==
    /\ LaterIdle
    /\ StreamIdle
    /\ EPIdle
    /\ codecs \in CodecOrders
    /\ pixfmts = ListingOrder
    /\ iblock \in IOInputs
    /\ ipc = "match"
    /\ im = 0
    /\ ii = 0
    /\ ilist = <<>>
    /\ ires = NoIO("None")

\* lines 59-64: try the patterns on block[0]
IOMatch ==
    /\ ipc = "match"
    /\ im' = IOHeader(iblock[1])
    /\ ipc' = IF im' = 0 THEN "done" ELSE "streams"
    /\ ii' = 1
    /\ UNCHANGED <<iblock, ilist, ires, vocabVars, laterVars, streamVars, epVars>>

\* lines 65-66: Stream.parse on the next line of islice(block, 1, None)
IOStreamLine ==
    /\ ipc = "streams"
    /\ ii < Len(iblock)
    /\ LET o == StreamParse(iblock[ii + 1], codecs, pixfmts)
       IN  IF o.st = "AttributeError"
           THEN /\ ires' = NoIO("AttributeError")
                /\ ipc' = "done"
                /\ UNCHANGED ilist
           ELSE /\ ilist' = IF o.st = "ok" THEN Append(ilist, o) ELSE ilist
                /\ UNCHANGED <<ires, ipc>>
    /\ ii' = ii + 1
    /\ UNCHANGED <<iblock, im, vocabVars, laterVars, streamVars, epVars>>

\* lines 67-69: return IO(type, num, name, streams)
IOConstruct ==
    /\ ipc = "streams"
    /\ ii = Len(iblock)
    /\ ires' = NewIO(IF im = 1 THEN TYPE_IN ELSE TYPE_OUT,
                     iblock[1].num, iblock[1].name, ilist)
    /\ ipc' = "done"
    /\ UNCHANGED <<iblock, im, ii, ilist, vocabVars, laterVars, streamVars, epVars>>

IONext ==
    \/ IOMatch
    \/ IOStreamLine
    \/ IOConstruct

SpecIO == IOInit /\ [][IONext]_vars

----------------------------------------------------------------------------
(* What the statements about Stream.parse speak of, said without the        *)
(* matchers of the model                                                    *)

\* lexemes a name token is made of
NameLexemes == {"h264", "zzz", "yuv420p", "10le", "rawvideo", "bgr24", "aac",
                "bin_data", "stereo"}

\* the leading name token of a field: its lexemes up to the first blank,
\* comma or group
RECURSIVE NameToken(_)
NameToken(f) ==
    IF f # <<>> /\ f[1] \in NameLexemes THEN <<f[1]>> \o NameToken(Tail(f))
    ELSE <<>>

AllDigits(t) == t # <<>> /\ \A i \in 1..Len(t) : t[i] \in Digits

\* a field '<width>x<height>', possibly followed by more text
IsGeometryField(f) ==
    \E n \in 1..Len(f), m \in 1..Len(f) :
        /\ n + 1 + m <= Len(f)
        /\ AllDigits(SubSeq(f, 1, n))
        /\ f[n + 1] = "x"
        /\ AllDigits(SubSeq(f, n + 2, n + 1 + m))

\* a field '<number> <word>' for a word of ws
IsRateField(f, ws) ==
    \E n \in 1..Len(f) :
        /\ n + 2 <= Len(f)
        /\ AllDigits(SubSeq(f, 1, n))
        /\ f[n + 1] = " "
        /\ f[n + 2] \in ws

\* the number a rate field starts with
RateOf(f) == ToInt(SubSeq(f, 1, Min({i \in 1..Len(f) : f[i] = " "}) - 1))

\* the fields of the line in sline, without blanks and commas around them
FieldsOfLine ==
    LET raw == FindAll(sline.info)
    IN  [j \in 1..Len(raw) |->
            LET f == SkipWs(raw[j])
            IN  IF f # <<>> /\ f[Len(f)] = "," THEN SubSeq(f, 1, Len(f) - 1)
                ELSE f]

\* first position after k of a field satisfying P, Len + 1 when there is none
FirstAfter(P(_), fs, k) ==
    LET hits == {j \in (k + 1)..Len(fs) : P(fs[j])}
    IN  IF hits = {} THEN Len(fs) + 1 ELSE Min(hits)

InVocab(vocab, t) == \E i \in 1..Len(vocab) : vocab[i] = t

VideoDone == spc = "done" /\ StreamMatch(sline) /\ sline.type = "Video"

\* the positions of the fields a forward pass takes as codec, pixel format
\* and geometry, a field being a codec (pixel format) field when its whole
\* name token is a vocabulary name
CodecAt ==
    LET P(f) == InVocab(codecs, NameToken(f)) IN FirstAfter(P, FieldsOfLine, 0)
PixAt ==
    LET P(f) == InVocab(pixfmts, NameToken(f))
    IN  FirstAfter(P, FieldsOfLine, CodecAt)
GeometryAt == FirstAfter(IsGeometryField, FieldsOfLine, PixAt)
RateAt ==
    LET P(f) == IsRateField(f, {"fps", "tbr"})
    IN  FirstAfter(P, FieldsOfLine, GeometryAt)

C7_FailsOnlyWithoutGeometry ==
    VideoDone =>
        LET fs == FieldsOfLine
            geo == {j \in 1..Len(fs) : IsGeometryField(fs[j])}
        IN  /\ (sobj.st = "AttributeError") <=> (geo = {})
            /\ geo # {} => sobj.st = "ok" /\ ~IsNone(sobj.width)

\* C8 as stated: the pix_fmt (and the codec) of a parsed Video stream line is
\* the whole leading name token of the field it was taken from, also when
\* another vocabulary name is a proper prefix of that token.
C8_WholeNameToken ==
    (VideoDone /\ sobj.st = "ok") =>
        LET fs == FieldsOfLine
        IN  /\ CodecAt <= Len(fs) /\ sobj.codec = Some(NameToken(fs[CodecAt]))
            /\ PixAt <= Len(fs) /\ sobj.pix_fmt = Some(NameToken(fs[PixAt]))

----------------------------------------------------------------------------
(* What the statements about IO.parse speak of *)

\* the header grammar: 'Input #<index>, <format>, from '<name>':' or
\* 'Output #<index>, <format>, to '<name>':' at the start of the line or
\* after a carriage return, ended by nothing, LF or CRLF; "" when the line
\* is no header
HeaderSide(line) ==
    IF /\ line.kind = "io"
       /\ <<line.dir, line.kw>> \in {<<"Input", "from">>, <<"Output", "to">>}
       /\ AllDigits(line.num)
       /\ line.fmt # <<>> /\ " " \notin {line.fmt[i] : i \in 1..Len(line.fmt)}
       /\ IF line.pre = "" THEN line.lead = "" ELSE line.pre = "cr"
       /\ line.eol \in {"", "\n", "\r\n"}
    THEN (IF line.dir = "Input" THEN "In" ELSE "Out")
    ELSE ""

IODone == ipc = "done"

\* the records Stream.parse gives for the lines after the first
BodyRecords == [j \in 1..(Len(iblock) - 1) |-> StreamParse(iblock[j + 1], codecs, pixfmts)]

\* positions of the lines after the first that parse as a stream
ParsedAt == {j \in DOMAIN BodyRecords : BodyRecords[j].st = "ok"}

----------------------------------------------------------------------------
(* Inputs of FFmpegEParser *)

MaxPieces == 4

InHdr0 == IOLine("", "", "Input", <<"0">>, MKV, "from", "a.mkv", "\n")
OutHdr0 == IOLine("", "", "Output", <<"0">>, RAW, "to", "pipe:", "\n")
MapHdr == MapHdrLine("", "", "\n")
InStream00 == StreamLine("    ", "0:0", "Video", V_H264)
OutStream00 == StreamLine("    ", "0:0", "Video", V_RAW)
Map00 == MapLine("  ", "0:0", <<Target(TRUE, "0:0"), Target(FALSE, "rawvideo")>>)
FlatNoise == OtherLine("", "Press [q] to stop, [?] for help")
IndentedNoise == OtherLine("  ", "Metadata:")

InBlock == <<InHdr0, InStream00>>
OutBlock == <<OutHdr0, OutStream00>>
MapBlock == <<MapHdr, Map00>>

\* a transcript is made of at most MaxPieces of these
Pieces ==
    {InBlock, OutBlock, MapBlock, <<OutHdr0>>, <<MapHdr>>, <<OutStream00>>,
     <<FlatNoise>>, <<IndentedNoise>>}

RECURSIVE Concat(_)
Concat(ss) == IF ss = <<>> THEN <<>> ELSE ss[1] \o Concat(Tail(ss))

Transcripts ==
    UNION {{Concat(f) : f \in [1..m -> Pieces]} : m \in 0..MaxPieces}

----------------------------------------------------------------------------
(* FFmpegEParser.__init__, step by step *)

Init ==
    /\ LaterIdle
    /\ StreamIdle
    /\ IOIdle
    /\ codecs \in CodecOrders
    /\ pixfmts = ListingOrder
    /\ transcript \in Transcripts
    /\ verbose \in BOOLEAN
    /\ history = <<>>
    /\ pos = 0
    /\ eof = FALSE
    /\ block = <<>>
    /\ streammap = NoMap
    /\ ins = NoIOs
    /\ outs = NoIOs
    /\ istreams = {}
    /\ ostreams = {}
    /\ itargets = {}
    /\ otargets = {}
    /\ stderr = <<>>
    /\ pc = "loop"

EPState ==
    [streammap |-> streammap, ins |-> ins, outs |-> outs,
     istreams |-> istreams, ostreams |-> ostreams, itargets |-> itargets,
     otargets |-> otargets, err |-> ""]

\* lines 27-29: the test of the while loop; line 31 starts a BlockIter
EPLoop ==
    /\ pc = "loop"
    /\ pc' = IF Continue(EPState) THEN "first" ELSE "done"
    /\ block' = <<>>
    /\ UNCHANGED <<sourceVars, parserVars, stderr, vocabVars, laterVars, streamVars, ioVars>>

\* BlockIter.__iter__, lines 18-19: the first line of the block, if any
EPFirstLine ==
    /\ pc = "first"
    /\ LET r == RewindNext(history, pos, transcript)
       IN  /\ history' = r.history
           /\ pos' = r.pos
           /\ eof' = r.eof
           /\ IF IsNone(r.obj)
              THEN pc' = "dispatch" /\ UNCHANGED block
              ELSE pc' = "more" /\ block' = Append(block, Get(r.obj))
    /\ UNCHANGED <<transcript, verbose, parserVars, stderr, vocabVars, laterVars,
                   streamVars, ioVars>>

\* BlockIter.__iter__, lines 20-25: one more line
EPMoreLine ==
    /\ pc = "more"
    /\ LET r == RewindNext(history, pos, transcript)
       IN  /\ history' = r.history
           /\ pos' = r.pos
           /\ eof' = r.eof
           /\ IF IsNone(r.obj)
              THEN pc' = "dispatch" /\ UNCHANGED block
              ELSE IF Indented(Get(r.obj))
              THEN pc' = "more" /\ block' = Append(block, Get(r.obj))
              ELSE pc' = PushOnRewindIt /\ UNCHANGED block
    /\ UNCHANGED <<transcript, verbose, parserVars, stderr, vocabVars, laterVars,
                   streamVars, ioVars>>

\* lines 32-49: the block is complete
EPDispatch ==
    /\ pc = "dispatch"
    /\ IF block = <<>>
       THEN /\ pc' = EmptyBlock
            /\ UNCHANGED <<parserVars, stderr>>
       ELSE \E P \in {Dispatch(EPState, block, codecs, pixfmts)} :
                /\ stderr' = IF verbose THEN stderr \o block ELSE stderr
                /\ pc' = IF P.err = "" THEN "loop" ELSE P.err
                /\ streammap' = P.streammap
                /\ ins' = P.ins
                /\ outs' = P.outs
                /\ istreams' = P.istreams
                /\ ostreams' = P.ostreams
                /\ itargets' = P.itargets
                /\ otargets' = P.otargets
    /\ UNCHANGED <<sourceVars, block, vocabVars, laterVars, streamVars, ioVars>>

Next ==
    \/ EPLoop
    \/ EPFirstLine
    \/ EPMoreLine
    \/ EPDispatch

Spec == Init /\ [][Next]_vars

----------------------------------------------------------------------------
(* What the statements about FFmpegEParser speak of *)

\* the constructor has returned or raised
Stopped == pc \in {"done", "ValueError", "AttributeError"}

\* the blocks of a text: each a line and the indented lines that follow it
RECURSIVE BlocksOf(_)
BlocksOf(T) ==
    IF T = <<>> THEN <<>>
    ELSE LET n == Min({j \in 1..Len(T) : j = Len(T) \/ T[j + 1].lead = ""})
         IN  <<SubSeq(T, 1, n)>> \o BlocksOf(SubSeq(T, n + 1, Len(T)))

\* what the first n blocks of bs say: the attributes and sets after they
\* have been taken in, one after the other
RECURSIVE After(_, _)
After(bs, n) ==
    IF n = 0 THEN NewParser
    ELSE Dispatch(After(bs, n - 1), bs[n], codecs, pixfmts)

\* the termination predicate of the statements: a mapping is known and every
\* output-side id it names is a stream of an Output block taken in
Complete(P) == P.streammap.st = "ok" /\ P.otargets \subseteq P.ostreams

\* the numbers of the blocks of the transcript after which Complete holds
CompleteAt ==
    {n \in 1..Len(BlocksOf(transcript)) : Complete(After(BlocksOf(transcript), n))}

\* the number of lines of the first n blocks
RECURSIVE LinesIn(_, _)
LinesIn(bs, n) == IF n = 0 THEN 0 ELSE Len(bs[n]) + LinesIn(bs, n - 1)

\* C1 as stated: the constructor returns exactly when Complete holds after
\* some block of the transcript, and then with what the blocks up to the
\* first such block say, no further block taken in.
C1_ReturnsExactlyWhenComplete ==
    Stopped =>
        /\ (pc = "done") <=> (CompleteAt # {})
        /\ pc = "done" =>
               EPState = After(BlocksOf(transcript), Min(CompleteAt))

\* C2: when the line source is exhausted and the termination predicate does
\* not hold, the constructor does not return: it ends by raising an error.
C2_ExhaustedRaises ==
    (Stopped /\ eof /\ ~Complete(EPState)) =>
        pc \in {"ValueError", "AttributeError"}

\* a transcript of one Input block and no mapping, read to its end: ValueError
C2_Witness ==
    /\ pc = "ValueError" /\ eof
    /\ transcript # <<>> /\ history = transcript
    /\ streammap.st = "None"
    /\ DOMAIN ins = {0}

\* C3 as stated: for a transcript that has a block completing the predicate,
\* the constructor returns, and no line after the last line of that block is
\* ever pulled from the line source.
C3_NoLineBeyondCompletion ==
    CompleteAt # {} =>
        /\ Len(history) <= LinesIn(BlocksOf(transcript), Min(CompleteAt))
        /\ Stopped => pc = "done"

\* transcripts of one Input block, one Output block and one mapping block,
\* the mapping after or before the Output block
WellFormed == {InBlock \o OutBlock \o MapBlock, InBlock \o MapBlock \o OutBlock}

\* C4 as stated: for such a transcript the constructor ends with ins and
\* outs keyed by block index, the streams of each with the codec, pix_fmt,
\* width, height and fps of their lines (fps absent when the line has
\* none), and the pairs of the mapping.
C4_LiteralValues ==
    (Stopped /\ transcript \in WellFormed) =>
        /\ pc = "done"
        /\ DOMAIN ins = {0} /\ DOMAIN ins[0].streams = {"0:0"}
        /\ DOMAIN outs = {0} /\ DOMAIN outs[0].streams = {"0:0"}
        /\ LET i == ins[0].streams["0:0"]
               o == outs[0].streams["0:0"]
           IN  /\ <<i.codec, i.pix_fmt>> = <<Some(H264), Some(YUV420P)>>
               /\ <<i.width, i.height, i.ifps>> = <<Some(64), Some(48), Some(25)>>
               /\ <<o.codec, o.pix_fmt>> = <<Some(RAWVIDEO), Some(BGR24)>>
               /\ <<o.width, o.height, o.ifps>> = <<Some(32), Some(24), None>>
        /\ streammap.mappings = <<(<<"0:0", "0:0">>)>>

\* a text without its noise lines
IsNoise(line) == line.kind = "other"
NotNoise(line) == ~IsNoise(line)
Denoise(T) == SelectSeq(T, NotNoise)

\* C5 as stated: for a well-formed transcript with noise lines inserted, the
\* constructor ends with the ins, outs and mapping that the blocks of the
\* transcript without the noise say.
C5_NoiseIgnored ==
    (Stopped /\ transcript # Denoise(transcript)
             /\ Denoise(transcript) \in WellFormed) =>
        LET bs == BlocksOf(Denoise(transcript))
        IN  /\ pc = "done"
            /\ <<ins, outs, streammap>> =
                   <<After(bs, Len(bs)).ins, After(bs, Len(bs)).outs,
                     After(bs, Len(bs)).streammap>>

\* C10 as stated: once a block whose first line is an Input or Output header
\* has been taken in, ins (respectively outs) has an entry under its index,
\* also when no line of the block parsed as a stream.
C10_HeaderRecorded ==
    (pc = "loop" /\ block # <<>> /\ HeaderSide(block[1]) # "") =>
        ToInt(block[1].num) \in
            DOMAIN (IF HeaderSide(block[1]) = "In" THEN ins ELSE outs)

----------------------------------------------------------------------------
(* Inputs of StreamMap.parse *)

MaxMapLines == 3

\* first lines: 'Stream mapping:' as ffmpeg prints it, variants and near misses
MapHeaderPool ==
    {MapHdrLine("", "", "\n"),
     MapHdrLine("", "", ""),
     MapHdrLine("", "", " \r\n"),
     MapHdrLine("", "txt", "\n"),
     MapHdrLine("  ", "", "\n"),
     MapHdrLine("", "", " (x)\n"),
     InHdr0,
     FlatNoise}

\* lines that follow the first line of a block
MapBodyPool ==
    {Map00,
     MapLine("  ", "0:1", <<Target(TRUE, "0:1")>>),
     MapLine("  ", "0:0", <<Target(FALSE, "scale")>>),
     MapLine("  ", "0:0", <<Target(TRUE, "0:0"), Target(TRUE, "0:2")>>),
     MapLine("", "1:0", <<Target(TRUE, "1:0")>>),
     OutStream00,
     OtherLine("", "File 'nul' already exists. Overwrite? [y/N] y")}

MapBodySeqs(n) == UNION {[1..m -> MapBodyPool] : m \in 0..n}

MapInputs == {<<h>> \o b : h \in MapHeaderPool, b \in MapBodySeqs(MaxMapLines)}

\* everything but StreamMap.parse is idle
ExMapIdle ==
    /\ StreamIdle /\ IOIdle /\ EPIdle
    /\ codecs \in CodecOrders /\ pixfmts = ListingOrder
    /\ InfoIdle
    /\ FrameIdle
    /\ ReaderIdle
    /\ ProcIdle
    /\ DeviceIdle
    /\ BlockIdle
    /\ PreItIdle
    /\ RewindIdle
    /\ LookupIdle
    /\ DebufIdle
    /\ CloseIdle

exMap == <<firstVars, infoVars, frameVars, readerVars, procVars, deviceVars, blockVars, preitVars, rewindVars, lookupVars, debufVars, closeVars>>

----------------------------------------------------------------------------
(* StreamMap.parse, step by step *)

MapInit ==
    /\ ExMapIdle
    /\ mblock \in MapInputs
    /\ mpc = "check"
    /\ mi = 0
    /\ mlist = <<>>
    /\ mres = NoMap

\* lines 15-16: the test of the first line
MapCheck ==
    /\ mpc = "check"
    /\ mpc' = IF MapHeader(mblock[1]) THEN "lines" ELSE "done"
    /\ mi' = 1
    /\ UNCHANGED <<mblock, mlist, mres, exMap>>

\* lines 17-19: the pattern on the next line of islice(block, 1, None)
MapLineStep ==
    /\ mpc = "lines"
    /\ mi < Len(mblock)
    /\ mlist' = mlist \o MapPairs(<<mblock[mi + 1]>>)
    /\ mi' = mi + 1
    /\ UNCHANGED <<mblock, mpc, mres, exMap>>

\* lines 20-21: return StreamMap(pairs)
MapReturn ==
    /\ mpc = "lines"
    /\ mi = Len(mblock)
    /\ mres' = [st |-> "ok", mappings |-> mlist]
    /\ mpc' = "done"
    /\ UNCHANGED <<mblock, mi, mlist, exMap>>

MapNext ==
    \/ MapCheck
    \/ MapLineStep
    \/ MapReturn

SpecMap == MapInit /\ [][MapNext]_vars

----------------------------------------------------------------------------
(* What the statements about StreamMap.parse speak of *)

MapDone == mpc = "done"

\* the line ends with 'Stream mapping:' and nothing but white space after it
EndsWithMapping(line) ==
    line.kind = "maphdr" /\ line.trail \in {"", "\n", "\r\n", " \r\n", " \n"}

\* the line reads '<blanks>Stream #<in> ... -> #<out>'
IsMappingLine(line) ==
    /\ line.kind = "map" /\ line.lead # ""
    /\ TRUE \in {line.targets[j].hash : j \in 1..Len(line.targets)}

\* its pair: <in> and the '#<out>' that the last arrow to a '#' points at
PairOf(line) ==
    LET last == CHOOSE j \in 1..Len(line.targets) :
                    /\ line.targets[j].hash
                    /\ \A k \in 1..Len(line.targets) :
                           line.targets[k].hash => k <= j
    IN  <<line.iname, line.targets[last].id>>

\* the pairs of the mapping lines among lines, in order
MappingLinesOf(lines) == SelectSeq(lines, IsMappingLine)
PairsOf(lines) ==
    [j \in 1..Len(MappingLinesOf(lines)) |-> PairOf(MappingLinesOf(lines)[j])]

\* C11: StreamMap.parse returns None unless the first line of the block ends
\* with 'Stream mapping:' (trailing white space ignored); otherwise it
\* returns the (input id, output id) pairs of the following lines that read
\* 'Stream #<in> ... -> #<out>', in their order, the other lines skipped.
C11_PairsInOrder ==
    MapDone =>
        IF ~EndsWithMapping(mblock[1]) THEN mres.st = "None"
        ELSE mres.st = "ok" /\ mres.mappings = PairsOf(Tail(mblock))

\* a block with a CRLF-terminated header, two mapping lines and a skipped
\* line between them
C11_Witness ==
    /\ MapDone /\ mres.st = "ok"
    /\ mblock[1].trail = " \r\n"
    /\ Len(mblock) = 4
    /\ mblock[3].kind = "other"
    /\ mres.mappings = <<(<<"0:0", "0:0">>), (<<"0:1", "0:1">>)>>

----------------------------------------------------------------------------
(* What the statement about verbose speaks of *)

\* the last line of the block of T that starts at line k
BlockEnd(T, k) ==
    Min({j \in k..Len(T) : j = Len(T) \/ T[j + 1].lead = ""})

\* How the constructor ends on transcript T, whatever verbose is, from the
\* test of the loop with attributes and sets P and k lines read: how it
\* stopped, the attributes and sets, and the number of lines read.
RECURSIVE OutcomeFrom(_, _, _)
OutcomeFrom(P, T, k) ==
    IF ~Continue(P) THEN <<"done", P, k>>
    ELSE IF k >= Len(T) THEN <<"ValueError", P, k>>
    ELSE IF BlockEnd(T, k + 1) < Len(T)
    THEN <<"AttributeError", P, BlockEnd(T, k + 1) + 1>>
    ELSE IF Dispatch(P, SubSeq(T, k + 1, Len(T)), codecs, pixfmts).err # ""
    THEN <<"AttributeError", P, Len(T)>>
    ELSE OutcomeFrom(Dispatch(P, SubSeq(T, k + 1, Len(T)), codecs, pixfmts),
                     T, Len(T))

\* the blocks of the transcript that have been pulled: those whose end has
\* been seen, by reading the line after them or the end of the source
PulledBlocks ==
    LET bs == BlocksOf(transcript)
    IN  {n \in 1..Len(bs) :
            \/ LinesIn(bs, n) < Len(history)
            \/ LinesIn(bs, n) = Len(history) /\ eof}

\* C12 as stated: how the constructor ends, its ins, outs and mapping and
\* the number of lines read do not depend on verbose, and with verbose set
\* the sink holds the lines of every block pulled, in order.
C12_VerboseEchoesEveryBlock ==
    Stopped =>
        /\ <<pc, EPState, Len(history)>> = OutcomeFrom(NewParser, transcript, 0)
        /\ verbose =>
               LET bs == BlocksOf(transcript)
               IN  \E n \in 0..Len(bs) :
                       /\ PulledBlocks = 1..n
                       /\ stderr = SubSeq(transcript, 1, LinesIn(bs, n))

----------------------------------------------------------------------------
(* info.py: listings of `ffmpeg -pix_fmts`, `ffmpeg -codecs`, ...           *)
(* A line of a listing is a record: a flag definition ("I.... = Supported  *)
(* input"), the column names ("FLAGS NAME ..."), the separator rule        *)
(* ("-----"), a row ("IO... yuv420p 3 12"), a blank line, or anything else  *)
(* ("Pixel formats:").  flags is the run of flag characters after the      *)
(* indentation, indent the number of leading spaces.                       *)

DefLine(indent, flags) == [k |-> "def", indent |-> indent, flags |-> flags, name |-> "="]
RowLine(indent, flags, name) == [k |-> "row", indent |-> indent, flags |-> flags, name |-> name]
FieldsLine == [k |-> "fields", indent |-> 0, flags |-> <<>>, name |-> ""]
SepLine == [k |-> "sep", indent |-> 0, flags |-> <<>>, name |-> ""]
BlankLine == [k |-> "blank", indent |-> 0, flags |-> <<>>, name |-> ""]
TitleLine == [k |-> "title", indent |-> 0, flags |-> <<>>, name |-> ""]

\* Header.pattern: (?P<indent>\s*)(?P<flags>[A-Z. ]+) = (?P<description>.*)
HeaderPattern(line) == line.k = "def"

\* the characters that mark no flag
Unmarked == {".", " "}

\* the length of the leading run of lines matching Header.pattern
RECURSIVE DefRun(_)
DefRun(ls) ==
    IF ls = <<>> \/ ~HeaderPattern(ls[1]) THEN 0 ELSE 1 + DefRun(Tail(ls))

\* Header._fix_flags, one definition: indentation beyond the common one
\* becomes part of the flags
FixFlags(h, indent) == [j \in 1..(h.indent - indent) |-> " "] \o h.flags

\* Header._add_idxs, one definition: the columns carrying a flag character
AddIdxs(flags) == {i \in 1..Len(flags) : flags[i] \notin Unmarked}

NoHeader(st) ==
    [st |-> st, indent |-> 0, width |-> 0, chars |-> <<>>, fieldnames |-> FALSE,
     rest |-> <<>>]

\* Header._toend: skip to the separator rule, picking up the column names
RECURSIVE ToEnd(_, _, _, _, _)
ToEnd(indent, width, chars, fieldnames, ls) ==
    IF ls = <<>>
    THEN [st |-> "ok", indent |-> indent, width |-> width, chars |-> chars,
          fieldnames |-> fieldnames, rest |-> <<>>]
    ELSE IF ls[1].k = "sep"
    THEN [st |-> "ok", indent |-> indent, width |-> width, chars |-> chars,
          fieldnames |-> fieldnames, rest |-> Tail(ls)]
    ELSE IF ls[1].k = "blank" THEN NoHeader("IndexError")
    ELSE IF ls[1].k = "fields"
    THEN IF fieldnames THEN NoHeader("ValueError")
         ELSE ToEnd(indent, width, chars, TRUE, Tail(ls))
    ELSE ToEnd(indent, width, chars, fieldnames, Tail(ls))

\* Header._calc_pattern: per column the characters a row may carry there
CalcPattern(fl) ==
    [i \in 1..Len(fl[1]) |->
        Unmarked \cup {fl[j][i] : j \in {j \in 1..Len(fl) : i \in AddIdxs(fl[j])}}]

\* Header.__init__(line, it): ls starts with the first definition line
HeaderInit(ls) ==
    LET n == DefRun(ls)
        indent == Min({ls[j].indent : j \in 1..n})
        fl == [j \in 1..n |-> FixFlags(ls[j], indent)]
    IN  IF \E j \in 1..n : Len(fl[j]) # Len(fl[1]) THEN NoHeader("ValueError")
        ELSE IF \E j \in 1..n : Cardinality(AddIdxs(fl[j])) # 1
        THEN NoHeader("ValueError")
        ELSE ToEnd(indent, Len(fl[1]), CalcPattern(fl), FALSE,
                   SubSeq(ls, n + 1, Len(ls)))

\* Info._get_header: the lines before the first definition are dropped; a
\* listing without one leaves self.headers = None
RECURSIVE GetHeader(_)
GetHeader(ls) ==
    IF ls = <<>> THEN None
    ELSE IF HeaderPattern(ls[1]) THEN Some(HeaderInit(ls))
    ELSE GetHeader(Tail(ls))

\* Header.process: the row as a dict, None for a line that is no row.  A
\* definition line after the rule reads as a row named "=".
Process(H, line) ==
    IF /\ line.k \in {"row", "def"}
       /\ line.indent = H.indent
       /\ Len(line.flags) = H.width
       /\ \A i \in 1..H.width : line.flags[i] \in H.chars[i]
    THEN Some([name |-> line.name, flags |-> line.flags, fields |-> H.fieldnames])
    ELSE None

NoRow == [name |-> "", flags |-> <<>>, fields |-> FALSE]
EmptyDict == [n \in {} |-> NoRow]

\* {d['name']: d for d in map(self.headers.process, it) if d}
RECURSIVE InfoDict(_, _)
InfoDict(H, ls) ==
    IF ls = <<>> THEN EmptyDict
    ELSE IF Process(H, ls[Len(ls)]) = None THEN InfoDict(H, SubSeq(ls, 1, Len(ls) - 1))
    ELSE (Process(H, ls[Len(ls)])[1].name :> Process(H, ls[Len(ls)])[1])
             @@ InfoDict(H, SubSeq(ls, 1, Len(ls) - 1))

\* the miss branch of Info.__init__ after communicate(): how it ends and the
\* mapping it builds
ParseHeader(hd) ==
    IF hd = None THEN [st |-> "AttributeError", info |-> EmptyDict]
    ELSE IF hd[1].st # "ok" THEN [st |-> hd[1].st, info |-> EmptyDict]
    ELSE [st |-> "ok", info |-> InfoDict(hd[1], hd[1].rest)]

ParseListing(ls) == ParseHeader(GetHeader(ls))

\* `if info:` is false for None and for an empty dict
Truthy(c, h) == c # 0 /\ DOMAIN h[c] # {}

----------------------------------------------------------------------------
(* Inputs of Info *)

Flags == {"-pix_fmts", "-codecs"}

MaxConstructions == 2

Constructions == 1..MaxConstructions

DefI == DefLine(0, <<"I", ".">>)
DefO == DefLine(0, <<".", "O">>)
RowA == RowLine(0, <<"I", "O">>, "yuv420p")
RowB == RowLine(0, <<"I", ".">>, "bgr24")

ListingPool ==
    { <<TitleLine, DefI, DefO, FieldsLine, SepLine, RowA, RowB>>,
      <<DefI, DefO, SepLine, RowA>>,
      <<DefLine(1, <<"I", ".">>), DefLine(1, <<".", "O">>), SepLine,
        RowLine(1, <<"I", "O">>, "yuv420p")>>,
      <<DefI, DefO, SepLine>>,
      <<DefI, DefO, SepLine, RowA, DefI>>,
      <<DefI, DefO, TitleLine, SepLine, RowA>>,
      <<>>,
      <<TitleLine, RowA>>,
      <<DefI, DefO, RowA>>,
      <<DefI, DefO, FieldsLine, RowA>>,
      <<DefI, DefLine(0, <<".">>), SepLine, RowA>>,
      <<DefI, DefLine(1, <<".", "O">>), SepLine, RowA>>,
      <<DefLine(0, <<"I", "O">>), DefO, SepLine, RowA>>,
      <<DefLine(0, <<".", ".">>), DefO, SepLine, RowA>>,
      <<DefI, DefO, BlankLine, SepLine, RowA>>,
      <<DefI, DefO, FieldsLine, FieldsLine, SepLine, RowA>> }

exInfo == <<firstVars, mapVars, frameVars, readerVars, procVars, deviceVars, blockVars, preitVars, rewindVars, lookupVars, debufVars, closeVars>>

ExInfoIdle ==
    /\ StreamIdle /\ IOIdle /\ EPIdle /\ MapIdle
    /\ codecs \in CodecOrders /\ pixfmts = ListingOrder
    /\ FrameIdle
    /\ ReaderIdle
    /\ ProcIdle
    /\ DeviceIdle
    /\ BlockIdle
    /\ PreItIdle
    /\ RewindIdle
    /\ LookupIdle
    /\ DebufIdle
    /\ CloseIdle

----------------------------------------------------------------------------
(* Info.__init__, step by step.  The cache is a class attribute shared by  *)
(* every construction; nothing serialises the constructions.               *)

InfoInit ==
    /\ ExInfoIdle
    /\ listing \in [Flags -> ListingPool]
    /\ invoked = [f \in Flags |-> 0]
    /\ heap = <<>>
    /\ cache = [f \in Flags |-> 0]
    /\ tflag \in [Constructions -> Flags]
    /\ tpc = [t \in Constructions |-> "get"]
    /\ tinfo = [t \in Constructions |-> 0]

\* info = self._cache.get(flag); if info: self.info = info
InfoGet(t) ==
    /\ tpc[t] = "get"
    /\ IF Truthy(cache[tflag[t]], heap)
       THEN /\ tinfo' = [tinfo EXCEPT ![t] = cache[tflag[t]]]
            /\ tpc' = [tpc EXCEPT ![t] = "done"]
       ELSE /\ tpc' = [tpc EXCEPT ![t] = "popen"]
            /\ UNCHANGED tinfo
    /\ UNCHANGED <<listing, invoked, heap, cache, tflag, exInfo>>

\* p = sp.Popen(['ffmpeg', flag], ...); stdo, stde = p.communicate()
InfoPopen(t) ==
    /\ tpc[t] = "popen"
    /\ invoked' = [invoked EXCEPT ![tflag[t]] = @ + 1]
    /\ tpc' = [tpc EXCEPT ![t] = "parse"]
    /\ UNCHANGED <<listing, heap, cache, tflag, tinfo, exInfo>>

\* self.headers = self._get_header(it);
\* self._cache[flag] = self.info = {...}
InfoStoreAs(t, r) ==
    IF r.st = "ok"
    THEN /\ heap' = Append(heap, r.info)
         /\ cache' = [cache EXCEPT ![tflag[t]] = Len(heap) + 1]
         /\ tinfo' = [tinfo EXCEPT ![t] = Len(heap) + 1]
         /\ tpc' = [tpc EXCEPT ![t] = "done"]
    ELSE /\ tpc' = [tpc EXCEPT ![t] = r.st]
         /\ UNCHANGED <<heap, cache, tinfo>>

InfoStore(t) ==
    /\ tpc[t] = "parse"
    /\ InfoStoreAs(t, ParseListing(listing[tflag[t]]))
    /\ UNCHANGED <<listing, invoked, tflag, exInfo>>

InfoNext ==
    \/ \E t \in Constructions : InfoGet(t)
    \/ \E t \in Constructions : InfoPopen(t)
    \/ \E t \in Constructions : InfoStore(t)

SpecInfo == InfoInit /\ [][InfoNext]_vars

----------------------------------------------------------------------------
(* Claims about Info *)

InfoEnded(t) == tpc[t] \notin {"get", "popen", "parse"}

\* C13: whatever the interleaving of the constructions, the tool is run at
\* most once per flag, and the constructions of one flag that have completed
\* hold one and the same mapping object.
C13_OnceAndShared ==
    /\ \A f \in Flags : invoked[f] <= 1
    /\ \A t, u \in Constructions :
           tflag[t] = tflag[u] /\ tpc[t] = "done" /\ tpc[u] = "done"
               => tinfo[t] = tinfo[u]

\* A listing has a well-formed header when its first flag definitions form
\* one run of equally wide lines, each marking exactly one column, followed
\* by the separator rule, with nothing but text lines and at most one line
\* of column names in between.
WellFormedRun(ls, n) ==
    /\ \A j \in 1..n : ls[j].indent = ls[1].indent /\ Len(ls[j].flags) = Len(ls[1].flags)
    /\ \A j \in 1..n : Cardinality({i \in 1..Len(ls[j].flags) : ls[j].flags[i] \notin Unmarked}) = 1
    /\ \E e \in n + 1..Len(ls) :
           /\ ls[e].k = "sep"
           /\ \A j \in n + 1..e - 1 : ls[j].k \in {"fields", "title"}
           /\ Cardinality({j \in n + 1..e - 1 : ls[j].k = "fields"}) <= 1

RECURSIVE WellFormedHeader(_)
WellFormedHeader(ls) ==
    IF ls = <<>> THEN FALSE
    ELSE IF ls[1].k = "def" THEN WellFormedRun(ls, DefRun(ls))
    ELSE WellFormedHeader(Tail(ls))

\* C14: when the listing of a flag has no well-formed flag-definition header,
\* every construction for that flag that has ended has ended with an error,
\* and the cache holds no entry for the flag.
C14_MalformedHeaderFails ==
    \A f \in Flags :
        ~WellFormedHeader(listing[f]) =>
            /\ cache[f] = 0
            /\ \A t \in Constructions :
                   tflag[t] = f /\ InfoEnded(t) => tpc[t] # "done"

----------------------------------------------------------------------------
(* retrieve.py: FrameRetriever.frameinfo                                   *)
(* A descriptor is a row of the pixel format listing: its name and the     *)
(* columns NB_COMPONENTS and BITS_PER_PIXEL.  The result is the shape and   *)
(* the element width in bits of the buffer, or the error raised.           *)

FrameOk(shape, bits) == [st |-> "ok", shape |-> shape, bits |-> bits]
FrameError == [st |-> "ValueError", shape |-> <<>>, bits |-> 0]

\* the keys of dtypes
DtypeBits == {8, 16, 32, 64}

\* 'bayer' in pix_fmt['name']
IsBayer(name) == name \in {"bayer_bggr8", "bayer_bggr16le"}

NamedShapeTransposed(name, width, height) ==
    IF name \in {"bgr24", "rgb24"} THEN Some(<<width, height, 3>>)
    ELSE IF name \in {"yuv444p", "yuvj444p"} THEN Some(<<3, width, height>>)
    ELSE IF name = "yuv422p" THEN Some(<<2, height, width>>)
    ELSE IF name \in {"yuyv422", "uyvy422", "yvyu422"} THEN Some(<<width, height, 2>>)
    ELSE IF name \in {"yuv420p", "nv12", "yuvj420p"}
    THEN Some(<<width, (height * 3) \div 2>>)
    ELSE None

\* lines 81-90: the shapes decided by the name alone; int(height * 1.5)
\* drops the half row of an odd height
NamedShape(name, width, height) ==
    IF name \in {"bgr24", "rgb24"} THEN Some(<<height, width, 3>>)
    ELSE IF name \in {"yuv444p", "yuvj444p"} THEN Some(<<3, height, width>>)
    ELSE IF name = "yuv422p" THEN Some(<<2, height, width>>)
    ELSE IF name \in {"yuyv422", "uyvy422", "yvyu422"} THEN Some(<<height, width, 2>>)
    ELSE IF name \in {"yuv420p", "nv12", "yuvj420p"}
    THEN Some(<<(height * 3) \div 2, width>>)
    ELSE None

FlatCeil(totalbits) == FrameOk(<<(totalbits + 7) \div 8>>, 8)

\* lines 122-126: the flat byte buffer, or the error
Flat(totalbits) ==
    IF totalbits % 8 = 0 THEN FrameOk(<<totalbits \div 8>>, 8) ELSE FrameError

\* lines 93-126
Fallback(name, nchan, bppx, width, height) ==
    IF bppx % nchan = 0 /\ bppx \div nchan \in DtypeBits
    THEN FrameOk(IF name = "yuv444p" THEN <<nchan, height, width>>
                 ELSE <<height, width, nchan>>, bppx \div nchan)
    ELSE IF /\ height % 2 = 0
            /\ (bppx * height * width) % ((height + height \div 2) * width) = 0
            /\ (bppx * height * width) \div ((height + height \div 2) * width) \in DtypeBits
    THEN FrameOk(<<height + height \div 2, width>>,
                 (bppx * height * width) \div ((height + height \div 2) * width))
    ELSE IF nchan = 3 /\ bppx = 16 /\ ~IsBayer(name)
    THEN FrameOk(<<2, height, width>>, 8)
    ELSE Flat(bppx * height * width)

FrameInfoOf(named, pf, width, height) ==
    IF named # None THEN FrameOk(named[1], 8)
    ELSE Fallback(pf.name, pf.nchan, pf.bppx, width, height)

\* FrameRetriever.frameinfo(pix_fmt, width, height)
FrameInfo(pf, width, height) ==
    FrameInfoOf(NamedShape(pf.name, width, height), pf, width, height)

----------------------------------------------------------------------------
(* Inputs of frameinfo *)

MaxDim == 4

NamedFormats ==
    {"bgr24", "rgb24", "yuv444p", "yuvj444p", "yuv422p", "yuyv422", "uyvy422",
     "yvyu422", "yuv420p", "nv12", "yuvj420p"}

OtherFormats == {"gray", "nv21", "yuvj422p", "bayer_bggr16le"}

\* values of the columns NB_COMPONENTS and BITS_PER_PIXEL of the listing
Components == 1..4
BitsPerPixel == {1, 4, 8, 9, 12, 15, 16, 20, 24, 32, 48}

Descriptors ==
    [name : NamedFormats \cup OtherFormats, nchan : Components, bppx : BitsPerPixel]

exFrame == <<firstVars, mapVars, infoVars, readerVars, procVars, deviceVars, blockVars, preitVars, rewindVars, lookupVars, debufVars, closeVars>>

ExFrameIdle ==
    /\ StreamIdle /\ IOIdle /\ EPIdle /\ MapIdle /\ InfoIdle
    /\ codecs \in CodecOrders /\ pixfmts = ListingOrder
    /\ ReaderIdle
    /\ ProcIdle
    /\ DeviceIdle
    /\ BlockIdle
    /\ PreItIdle
    /\ RewindIdle
    /\ LookupIdle
    /\ DebufIdle
    /\ CloseIdle

FrameInit ==
    /\ ExFrameIdle
    /\ fdesc \in Descriptors
    /\ fwidth \in 1..MaxDim
    /\ fheight \in 1..MaxDim
    /\ fpc = "call"
    /\ fres = <<>>

FrameCall ==
    /\ fpc = "call"
    /\ fres' = FrameInfo(fdesc, fwidth, fheight)
    /\ fpc' = "return"
    /\ UNCHANGED <<fdesc, fwidth, fheight, exFrame>>

FrameNext == FrameCall

SpecFrame == FrameInit /\ [][FrameNext]_vars

----------------------------------------------------------------------------
(* Claims about frameinfo *)

RECURSIVE Product(_)
Product(shape) == IF shape = <<>> THEN 1 ELSE shape[1] * Product(Tail(shape))

FrameBytes(r) == (Product(r.shape) * r.bits) \div 8

\* C15: for the named formats the result is decided by the name and the
\* geometry alone, whatever the descriptor's component count and bits per
\* pixel: 8-bit elements in shape (height, width, 3) for bgr24/rgb24,
\* (3, height, width) for yuv444p/yuvj444p, (height, width, 2) for
\* yuyv422/uyvy422/yvyu422, and height*1.5 rows (whole rows only) by width
\* for yuv420p/yuvj420p/nv12; bgr24 at 4x3 is (3,4,3), 36 bytes, and yuv420p
\* at 4x2 is (3,4), 12 bytes.
C15_NamedFastPaths ==
    fpc = "return" =>
        /\ fdesc.name \in {"bgr24", "rgb24"} =>
               fres = FrameOk(<<fheight, fwidth, 3>>, 8)
        /\ fdesc.name \in {"yuv444p", "yuvj444p"} =>
               fres = FrameOk(<<3, fheight, fwidth>>, 8)
        /\ fdesc.name \in {"yuyv422", "uyvy422", "yvyu422"} =>
               fres = FrameOk(<<fheight, fwidth, 2>>, 8)
        /\ fdesc.name \in {"yuv420p", "yuvj420p", "nv12"} =>
               /\ fres.st = "ok" /\ fres.bits = 8 /\ Len(fres.shape) = 2
               /\ fres.shape[2] = fwidth
               /\ 2 * fres.shape[1] \in {3 * fheight, 3 * fheight - 1}
        /\ fdesc.name = "bgr24" /\ fwidth = 4 /\ fheight = 3 =>
               fres.shape = <<3, 4, 3>> /\ FrameBytes(fres) = 36
        /\ fdesc.name = "yuv420p" /\ fwidth = 4 /\ fheight = 2 =>
               fres.shape = <<3, 4>> /\ FrameBytes(fres) = 12

\* a yuv420p descriptor whose columns alone would give another layout
C15_Witness ==
    /\ fpc = "return"
    /\ fdesc = [name |-> "yuv420p", nchan |-> 3, bppx |-> 24]
    /\ fwidth = 4 /\ fheight = 2
    /\ fres = FrameOk(<<3, 4>>, 8)

\* no named path, no even split into 8/16/32/64-bit components, no
\* even-height 4:2:0-style layout
NoStructuredLayout ==
    /\ fdesc.name \notin NamedFormats
    /\ ~(fdesc.bppx % fdesc.nchan = 0 /\ fdesc.bppx \div fdesc.nchan \in {8, 16, 32, 64})
    /\ ~(/\ fheight % 2 = 0
         /\ \E b \in {8, 16, 32, 64} : 2 * fdesc.bppx = 3 * b)

FlatOrError ==
    IF (fdesc.bppx * fwidth * fheight) % 8 = 0
    THEN fres = FrameOk(<<(fdesc.bppx * fwidth * fheight) \div 8>>, 8)
    ELSE fres.st = "ValueError"

\* C16 as stated: whenever no structured layout applies, the result is the
\* flat 8-bit buffer of bitsPerPixel*width*height/8 bytes when that is a
\* whole number, and an error otherwise.
C16_FlatFallback ==
    fpc = "return" /\ NoStructuredLayout => FlatOrError

\* C16, amended: the same, except for a 3-component 16-bit-per-pixel format
\* whose name does not contain 'bayer', which gets the 8-bit two-plane shape
\* (2, height, width).
C16_FlatFallbackExceptPlanar422 ==
    fpc = "return" /\ NoStructuredLayout =>
        IF fdesc.nchan = 3 /\ fdesc.bppx = 16 /\ ~IsBayer(fdesc.name)
        THEN fres = FrameOk(<<2, fheight, fwidth>>, 8)
        ELSE FlatOrError

\* a 1-component 9-bit format at 3x1: 27 bits are no whole number of bytes
C16_Witness ==
    /\ fpc = "return"
    /\ fdesc = [name |-> "gray", nchan |-> 1, bppx |-> 9]
    /\ fwidth = 3 /\ fheight = 1
    /\ fres.st = "ValueError"

----------------------------------------------------------------------------
(* ffmpeg.py: FFmpegReader.__init__, lines 137-150                          *)
(* streaminfo.outs is taken as FFmpegEParser would have recorded it: the   *)
(* IO objects of output blocks with at least one stream, by their number.  *)

\* the Video streams the loops of lines 138-142 stop at
PipeVideoSet(outputs) ==
    {s \in UNION {{outputs[n].streams[k] : k \in DOMAIN outputs[n].streams} :
                     n \in {m \in DOMAIN outputs : IsPipe(outputs[m])}} :
        s.type = "Video"}

----------------------------------------------------------------------------
(* Inputs of FFmpegReader *)

OutputNames == {"pipe:", "out.mkv", "pipe:1"}

OutputBodies(n) ==
    LET pool == {StreamLine("    ", n \o ":0", "Video", V_RAW),
                 StreamLine("    ", n \o ":1", "Video", V_H264),
                 StreamLine("    ", n \o ":2", "Audio", <<"aac", " ", "(LC)", ",", " ", "stereo">>)}
    IN  UNION {[1..m -> pool] : m \in 1..2}

OutputIOs(n) ==
    {IOParse(<<IOLine("", "", "Output", <<n>>, RAW, "to", name, "\n")>> \o b,
             <<H264, RAWVIDEO>>, ListingOrder) :
        name \in OutputNames, b \in OutputBodies(n)}

ReaderOutputs ==
    {<<>>} \cup {(0 :> a) : a \in OutputIOs("0")} \cup {(1 :> b) : b \in OutputIOs("1")}
    \cup {(0 :> a) @@ (1 :> b) : a \in OutputIOs("0"), b \in OutputIOs("1")}

exReader == <<firstVars, mapVars, infoVars, frameVars, procVars, deviceVars, blockVars, preitVars, rewindVars, lookupVars, debufVars, closeVars>>

ExReaderIdle ==
    /\ StreamIdle /\ IOIdle /\ EPIdle /\ MapIdle /\ InfoIdle /\ FrameIdle
    /\ codecs \in CodecOrders /\ pixfmts = ListingOrder
    /\ ProcIdle
    /\ DeviceIdle
    /\ BlockIdle
    /\ PreItIdle
    /\ RewindIdle
    /\ LookupIdle
    /\ DebufIdle
    /\ CloseIdle

ReaderInit ==
    /\ ExReaderIdle
    /\ readerOuts \in ReaderOutputs
    /\ candidate = None
    /\ rpc = "select"
    /\ rmsg = <<>>

\* lines 137-146: the loops over the outputs and their streams
ReaderSelect ==
    /\ rpc = "select"
    /\ IF Cardinality(PipeVideoSet(readerOuts)) >= 2
       THEN /\ rpc' = "ValueError"
            /\ rmsg' = <<"Expect only 1 output video stream to pipe">>
            \* the first one met, in the iteration order of the dicts
            /\ candidate' \in {Some(s) : s \in PipeVideoSet(readerOuts)}
       ELSE /\ rpc' = "check"
            /\ candidate' = IF PipeVideoSet(readerOuts) = {} THEN None
                            ELSE Some(CHOOSE s \in PipeVideoSet(readerOuts) : TRUE)
            /\ UNCHANGED rmsg
    /\ UNCHANGED <<readerOuts, exReader>>

\* lines 147-150
ReaderCheck ==
    /\ rpc = "check"
    /\ IF candidate = None
       THEN rpc' = "ValueError" /\ rmsg' = <<"No pipe output to read from.">>
       ELSE IF candidate[1].codec # Some(RAWVIDEO)
       THEN rpc' = "ValueError" /\ rmsg' = <<"Only rawvideo codec is supported.">>
       ELSE rpc' = "selected" /\ UNCHANGED rmsg
    /\ UNCHANGED <<readerOuts, candidate, exReader>>

ReaderNext == ReaderSelect \/ ReaderCheck

SpecReader == ReaderInit /\ [][ReaderNext]_vars

----------------------------------------------------------------------------
(* Claims about FFmpegReader *)

\* the Video streams on outputs named exactly 'pipe:'
PipeCandidates ==
    {s \in UNION {{readerOuts[n].streams[k] : k \in DOMAIN readerOuts[n].streams} :
                     n \in {m \in DOMAIN readerOuts : readerOuts[m].name = "pipe:"}} :
        s.type = "Video"}

\* C17: once the selection is over, a single Video stream on the pipe
\* outputs is the candidate chosen, and with two or more of them the
\* construction has failed with an error whose message names every one of
\* them.
C17_SinglePipeVideoOrAllListed ==
    rpc \notin {"select"} =>
        /\ Cardinality(PipeCandidates) = 1 => candidate \in {Some(s) : s \in PipeCandidates}
        /\ Cardinality(PipeCandidates) >= 2 =>
               /\ rpc = "ValueError"
               /\ \A s \in PipeCandidates : \E i \in 1..Len(rmsg) : rmsg[i] = s.name

----------------------------------------------------------------------------
(* ffmpeg.py: FFmpegProc.__init__, lines 54-65: the parser runs over        *)
(* RewindIt(stderr) and stderr is then handed to a Forwarder.  The         *)
(* forwarding of stdout (lines 51-53 and 56-63) is left out.               *)

\* deque(..., maxlen=5)
HistoryKept == 5

\* deque(it.history, maxlen=5): the last lines of the history
SinkSeed(h) == SubSeq(h, Len(h) - Min({Len(h), HistoryKept}) + 1, Len(h))

exProc == <<firstVars, mapVars, infoVars, frameVars, readerVars, deviceVars, blockVars, preitVars, rewindVars, lookupVars, debufVars, closeVars>>

\* line 55 has returned or raised: an exception leaves __init__, otherwise
\* lines 64-65 make the forwarder
ProcHandoff ==
    /\ pc \in {"done", "ValueError", "AttributeError"}
    /\ ppc = "idle"
    /\ IF pc = "done"
       THEN ppc' = "returned" /\ eforward' = Some(SinkSeed(history))
       ELSE ppc' = pc /\ eforward' = None
    /\ UNCHANGED exProc

ProcNext == Next \/ ProcHandoff

SpecProc == Init /\ [][ProcNext]_vars

----------------------------------------------------------------------------
(* Claims about FFmpegProc *)

\* the numbers of the blocks of the transcript after which the parser's loop
\* condition is false
ParseEndsAt ==
    {n \in 1..Len(BlocksOf(transcript)) : ~Continue(After(BlocksOf(transcript), n))}

IsSuffix(s, t) == Len(s) <= Len(t) /\ s = SubSeq(t, Len(t) - Len(s) + 1, Len(t))

\* C18: when the transcript lets the parser finish, then once
\* FFmpegProc.__init__ is past the parser, stderr has been handed to the
\* forwarder, the sink holds at most 5 lines, and the lines read from stderr
\* beyond the blocks the parser took in are the last lines of the sink, in
\* order.
C18_UnconsumedLinesInSink ==
    ppc # "idle" /\ ParseEndsAt # {} =>
        /\ eforward # None
        /\ Len(eforward[1]) <= 5
        /\ LinesIn(BlocksOf(transcript), Min(ParseEndsAt)) <= Len(history)
        /\ IsSuffix(SubSeq(history, LinesIn(BlocksOf(transcript), Min(ParseEndsAt)) + 1,
                           Len(history)),
                    eforward[1])

----------------------------------------------------------------------------
(* devices.py: _Device.prefer with one preference on a numeric property.   *)
(* An option is its position in self.data; opts gives the property's value *)
(* for each.  The result is the set of options returned: the order of the  *)
(* list, which follows the dicts' insertion order, is left out.            *)

Abs(x) == IF x < 0 THEN -x ELSE x

PreferOk(S) == [st |-> "ok", options |-> S]
PreferError == [st |-> "ValueError", options |-> {}]

\* lines 157-164
Lt(opts, d) == {i \in 1..Len(opts) : opts[i] < d}
Gt(opts, d) == {i \in 1..Len(opts) : opts[i] > d}
Eq(opts, d) == {i \in 1..Len(opts) : opts[i] = d}

\* lines 165-170: a preference without flags on a number means '-<>='
PrefixFlags(p) == IF p = <<>> THEN {"-", "<", ">", "="} ELSE {p[i] : i \in 1..Len(p)}

\* lines 186-187: refined[val] = last[val] with val = pick(last); pick is min
\* for '<' and max for '>'
Picked(opts, last, k) ==
    {i \in last : \A j \in last : IF k = "<" THEN opts[i] <= opts[j] ELSE opts[i] >= opts[j]}

\* lines 180-187, for k = '<' (first = lt, last = gt) or '>' (first = gt,
\* last = lt)
Side(opts, k, first, eq, last) ==
    IF first # {} THEN first ELSE IF eq # {} THEN eq ELSE Picked(opts, last, k)

\* lines 175-192
Refined(opts, d, flags) ==
    (IF "=" \in flags THEN Eq(opts, d) ELSE {})
    \cup (IF "<" \in flags THEN Side(opts, "<", Lt(opts, d), Eq(opts, d), Gt(opts, d)) ELSE {})
    \cup (IF ">" \in flags THEN Side(opts, ">", Gt(opts, d), Eq(opts, d), Lt(opts, d)) ELSE {})

\* lines 193-197: rrefined[min(rrefined)]
Nearest(opts, d, S) == {i \in S : \A j \in S : Abs(d - opts[i]) <= Abs(d - opts[j])}

\* lines 171-200, refined being what lines 175-187 collect; min() and max()
\* of nothing raise ValueError
PreferWith(opts, d, flags, refined) ==
    IF "-" \in flags /\ Eq(opts, d) # {} THEN PreferOk(Eq(opts, d))
    ELSE IF opts = <<>> /\ flags \cap {"<", ">", "-"} # {} THEN PreferError
    ELSE IF "-" \in flags
    THEN PreferOk(Nearest(opts, d, IF refined = {} THEN 1..Len(opts) ELSE refined))
    ELSE PreferOk(IF refined = {} THEN 1..Len(opts) ELSE refined)

\* _Device.prefer(<prefix>fps, fps=d)
Prefer(opts, d, p) == PreferWith(opts, d, PrefixFlags(p), Refined(opts, d, PrefixFlags(p)))

----------------------------------------------------------------------------
(* Inputs of _Device.prefer *)

MaxOptions == 3

\* the example of the docstring, lines 129-130
DocOptions == <<5, 5, 7, 8, 10, 25, 30>>
DocTarget == 8

OptionValues == {5, 7, 8, 10}

Prefixes ==
    {<<"<">>, <<"<", "=">>, <<">">>, <<">", "=">>, <<"<", ">">>, <<"-">>,
     <<"<", "=", "-">>, <<">", "=", "-">>, <<"<", ">", "-">>, <<>>, <<"=">>}

exDevice == <<firstVars, mapVars, infoVars, frameVars, readerVars, procVars, blockVars, preitVars, rewindVars, lookupVars, debufVars, closeVars>>

ExDeviceIdle ==
    /\ StreamIdle /\ IOIdle /\ EPIdle /\ MapIdle /\ InfoIdle /\ FrameIdle
    /\ ReaderIdle /\ ProcIdle
    /\ codecs \in CodecOrders /\ pixfmts = ListingOrder
    /\ BlockIdle
    /\ PreItIdle
    /\ RewindIdle
    /\ LookupIdle
    /\ DebufIdle
    /\ CloseIdle

DeviceInit ==
    /\ ExDeviceIdle
    /\ options \in {DocOptions} \cup UNION {[1..n -> OptionValues] : n \in 0..MaxOptions}
    /\ desired \in {7, DocTarget}
    /\ prefix \in Prefixes
    /\ dpc = "call"
    /\ selected = <<>>

DevicePrefer ==
    /\ dpc = "call"
    /\ selected' = Prefer(options, desired, prefix)
    /\ dpc' = "return"
    /\ UNCHANGED <<options, desired, prefix, exDevice>>

DeviceNext == DevicePrefer

SpecDevice == DeviceInit /\ [][DeviceNext]_vars

----------------------------------------------------------------------------
(* Claims about _Device.prefer *)

Below == {i \in 1..Len(options) : options[i] < desired}
Above == {i \in 1..Len(options) : options[i] > desired}
Equal == {i \in 1..Len(options) : options[i] = desired}

Closest(S) ==
    {i \in S : \A j \in S : Abs(options[i] - desired) <= Abs(options[j] - desired)}

\* the values of the options returned, as a bag
SelectedValues ==
    [v \in {options[i] : i \in selected.options} |->
        Cardinality({i \in selected.options : options[i] = v})]

\* C19: with a single preference prefer returns the options below the
\* target for '<', not above it for '<=', above it for '>', not below it
\* for '>=', different from it for '<>', the closest ones for '-', the
\* closest ones not above it for '<=-' and not below it for '>=-', the
\* closest ones different from it for '<>-'; for the docstring's options
\* and target these have one value: 8, 8, 8 and 7.
C19_SinglePreference ==
    dpc = "return" /\ options # <<>> =>
        /\ selected.st = "ok"
        /\ prefix = <<"<">> => selected.options = Below
        /\ prefix = <<"<", "=">> => selected.options = Below \cup Equal
        /\ prefix = <<">">> => selected.options = Above
        /\ prefix = <<">", "=">> => selected.options = Above \cup Equal
        /\ prefix = <<"<", ">">> => selected.options = Below \cup Above
        /\ prefix = <<"-">> => selected.options = Closest(1..Len(options))
        /\ prefix = <<"<", "=", "-">> => selected.options = Closest(Below \cup Equal)
        /\ prefix = <<">", "=", "-">> => selected.options = Closest(Above \cup Equal)
        /\ prefix = <<"<", ">", "-">> => selected.options = Closest(Below \cup Above)
        /\ options = DocOptions /\ desired = DocTarget =>
               /\ prefix \in {<<"-">>, <<"<", "=", "-">>, <<">", "=", "-">>} =>
                      SelectedValues = (8 :> 1)
               /\ prefix = <<"<", ">", "-">> => SelectedValues = (7 :> 1)

----------------------------------------------------------------------------
(* eparse/blockiter.py over preit.py: passes of BlockIter over one PreIt    *)

PreItNextIgnoringPre(p, n, src) ==
    IF n < Len(src)
    THEN [obj |-> Some(src[n + 1]), pre |-> p, taken |-> n + 1]
    ELSE [obj |-> None, pre |-> p, taken |-> n]

\* PreIt.__iter__, one turn of its loop: the top of pre if there is one, else
\* the next line of it, else the end of the iteration
PreItNext(p, n, src) ==
    IF p # <<>>
    THEN [obj |-> Some(p[Len(p)]), pre |-> SubSeq(p, 1, Len(p) - 1), taken |-> n]
    ELSE IF n < Len(src)
    THEN [obj |-> Some(src[n + 1]), pre |-> p, taken |-> n + 1]
    ELSE [obj |-> None, pre |-> p, taken |-> n]

PreItPushBottom(p, item) == <<item>> \o p

\* PreIt.push
PreItPush(p, item) == Append(p, item)

----------------------------------------------------------------------------
(* Inputs of BlockIter *)

MaxLines == 4

LinePool ==
    {OtherLine("", "hello world"), OtherLine("", "nextblock"),
     OtherLine("\t", "goodbye"), OtherLine("  ", "world")}

exBlock == <<firstVars, mapVars, infoVars, frameVars, readerVars, procVars, deviceVars, preitVars, rewindVars, lookupVars, debufVars, closeVars>>

ExBlockIdle ==
    /\ StreamIdle /\ IOIdle /\ EPIdle /\ MapIdle /\ InfoIdle /\ FrameIdle
    /\ ReaderIdle /\ ProcIdle /\ DeviceIdle
    /\ codecs \in CodecOrders /\ pixfmts = ListingOrder
    /\ PreItIdle
    /\ RewindIdle
    /\ LookupIdle
    /\ DebufIdle
    /\ CloseIdle

----------------------------------------------------------------------------
(* list(BlockIter(pre)), again and again until a pass yields nothing, as   *)
(* the module's own test does                                              *)

BlockInit ==
    /\ ExBlockIdle
    /\ data \in UNION {[1..n -> LinePool] : n \in 0..MaxLines}
    /\ taken = 0
    /\ preStack = <<>>
    /\ passblock = <<>>
    /\ blocks = <<>>
    /\ bpc = "outer"

BlockStep(r, atOuter) ==
    /\ preStack' = IF ~IsNone(r.obj) /\ ~atOuter /\ ~Indented(r.obj[1])
              THEN PreItPush(r.pre, r.obj[1]) ELSE r.pre
    /\ taken' = r.taken
    /\ passblock' = IF ~IsNone(r.obj) /\ (atOuter \/ Indented(r.obj[1]))
                    THEN Append(passblock, r.obj[1]) ELSE passblock
    /\ bpc' = IF IsNone(r.obj) THEN (IF atOuter THEN "return" ELSE "outer")
              ELSE IF atOuter \/ Indented(r.obj[1]) THEN "inner" ELSE "return"

\* lines 18-19: the outer loop takes a line and yields it; without a line
\* the pass is over
BlockOuter ==
    /\ bpc = "outer"
    /\ BlockStep(PreItNext(preStack, taken, data), TRUE)
    /\ UNCHANGED <<data, blocks, exBlock>>

\* lines 20-25: the inner loop yields an indented line, pushes back another
\* and returns, and leaves to the outer loop when there is no line
BlockInner ==
    /\ bpc = "inner"
    /\ BlockStep(PreItNext(preStack, taken, data), FALSE)
    /\ UNCHANGED <<data, blocks, exBlock>>

\* the pass is over: block = list(BlockIter(pre)); a further pass follows
\* unless the block is empty
BlockReturn ==
    /\ bpc = "return"
    /\ blocks' = Append(blocks, passblock)
    /\ passblock' = <<>>
    /\ bpc' = IF passblock = <<>> THEN "done" ELSE "outer"
    /\ UNCHANGED <<data, taken, preStack, exBlock>>

BlockNext == BlockOuter \/ BlockInner \/ BlockReturn

SpecBlock == BlockInit /\ [][BlockNext]_vars

----------------------------------------------------------------------------
(* Claims about BlockIter *)

\* the lines still to come: the pushed-back ones, last pushed first, then the
\* rest of data
Pending == [i \in 1..Len(preStack) |-> preStack[Len(preStack) + 1 - i]] \o SubSeq(data, taken + 1, Len(data))

\* C20: the blocks of the passes, the lines of the running pass and the
\* lines still to come make up the input, in order; every block is a line
\* followed by indented lines only, and the line after it is not indented;
\* the only line ever pushed back is that line, which the next pass starts
\* with; a pass yields nothing only when no line remains.
C20_PassesPartitionLines ==
    /\ Concat(blocks) \o passblock \o Pending = data
    /\ \A k \in 1..Len(blocks) :
           /\ \A j \in 2..Len(blocks[k]) : blocks[k][j].lead # ""
           /\ blocks[k] = <<>> => Len(Concat(SubSeq(blocks, 1, k - 1))) = Len(data)
           /\ Len(Concat(SubSeq(blocks, 1, k))) < Len(data) =>
                  data[Len(Concat(SubSeq(blocks, 1, k))) + 1].lead = ""
    /\ Len(preStack) <= 1
    /\ preStack # <<>> => preStack[1].lead = "" /\ bpc \in {"return", "outer"}
    /\ bpc = "done" => Concat(blocks) = data

\* the test of the module: three lines, one line, nothing
C20_Witness ==
    /\ bpc = "done"
    /\ data = <<OtherLine("", "hello world"), OtherLine("\t", "goodbye"),
                OtherLine("  ", "world"), OtherLine("", "nextblock")>>
    /\ blocks = <<SubSeq(data, 1, 3), SubSeq(data, 4, 4), <<>>>>

----------------------------------------------------------------------------
(* Claims about the pushback inside FFmpegEParser *)

\* C21: once the parser has read the line after the n-th block of the
\* transcript, a non-indented line, it has not failed with an error; and
\* when that block is handed on, the line is back in the line source: the
\* position of the RewindIt is the end of the block, so that the next block
\* pulled starts with it.
C21_LineReturnedWithoutError ==
    \A n \in 1..Len(BlocksOf(transcript)) - 1 :
        Len(history) > LinesIn(BlocksOf(transcript), n) =>
            /\ pc # "AttributeError"
            /\ pc = "dispatch" /\ block = BlocksOf(transcript)[n] =>
                   pos = LinesIn(BlocksOf(transcript), n)

----------------------------------------------------------------------------
(* preit.py: one PreIt, iterated by two generators (an outer loop and a    *)
(* loop nested in it, as in the module's test), with pushes in between.    *)
(* The PreIt is data, taken and preStack; the rest of the BlockIter state  *)
(* stays idle.                                                             *)

MaxEvents == 6

MaxSource == 2

SourceItems == {"a", "s"}
PushItems == {"x", "y"}
Generators == {"outer", "inner"}

exPreIt ==
    <<firstVars, mapVars, infoVars, frameVars, readerVars, procVars, deviceVars,
      passblock, blocks, bpc, rewindVars, lookupVars,
      debufVars,
      closeVars>>

ExPreItIdle ==
    /\ StreamIdle /\ IOIdle /\ EPIdle /\ MapIdle /\ InfoIdle /\ FrameIdle
    /\ ReaderIdle /\ ProcIdle /\ DeviceIdle
    /\ passblock = <<>> /\ blocks = <<>> /\ bpc = "idle"
    /\ codecs \in CodecOrders /\ pixfmts = ListingOrder
    /\ RewindIdle
    /\ LookupIdle
    /\ DebufIdle
    /\ CloseIdle

PreItInit ==
    /\ ExPreItIdle
    /\ data \in UNION {[1..n -> SourceItems] : n \in 0..MaxSource}
    /\ taken = 0
    /\ preStack = <<>>
    /\ gens = [g \in Generators |-> "live"]
    /\ plog = <<>>

\* next() on generator g, r being what one turn of the generator's loop gives
PreItAdvance(g, r) ==
    /\ preStack' = r.pre
    /\ taken' = r.taken
    /\ IF IsNone(r.obj)
       THEN /\ gens' = [gens EXCEPT ![g] = "ended"]
            /\ plog' = Append(plog, <<"end", g>>)
       ELSE /\ plog' = Append(plog, <<"yield", r.obj[1]>>)
            /\ UNCHANGED gens

PreItYield(g) ==
    /\ Len(plog) < MaxEvents
    /\ gens[g] = "live"
    /\ PreItAdvance(g, PreItNext(preStack, taken, data))
    /\ UNCHANGED <<data, exPreIt>>

\* it.push(x)
PreItDoPush(x) ==
    /\ Len(plog) < MaxEvents
    /\ preStack' = PreItPush(preStack, x)
    /\ plog' = Append(plog, <<"push", x>>)
    /\ UNCHANGED <<data, taken, gens, exPreIt>>

PreItSpecNext ==
    \/ \E g \in Generators : PreItYield(g)
    \/ \E x \in PushItems : PreItDoPush(x)

SpecPreIt == PreItInit /\ [][PreItSpecNext]_vars

----------------------------------------------------------------------------
(* Claims about PreIt *)

\* the log read against a stack kept aside: a yield gives the item pushed
\* last and not yet given back, or without one the next item of the source;
\* a generator ends only without either
RECURSIVE LastPushedFirst(_, _, _)
LastPushedFirst(log, stack, k) ==
    IF log = <<>> THEN TRUE
    ELSE IF log[1][1] = "push"
    THEN LastPushedFirst(Tail(log), Append(stack, log[1][2]), k)
    ELSE IF log[1][1] = "yield"
    THEN IF stack # <<>>
         THEN /\ log[1][2] = stack[Len(stack)]
              /\ LastPushedFirst(Tail(log), SubSeq(stack, 1, Len(stack) - 1), k)
         ELSE /\ k < Len(data)
              /\ log[1][2] = data[k + 1]
              /\ LastPushedFirst(Tail(log), stack, k + 1)
    ELSE /\ stack = <<>>
         /\ k = Len(data)
         /\ LastPushedFirst(Tail(log), stack, k)

\* C22: whatever pushes and whichever of the two iterations asks next, the
\* pushed items come back last pushed first, before any further item of the
\* source, and an iteration ends only when the source is exhausted and no
\* pushed item remains.
C22_LastPushedFirstReturned ==
    plog # <<>> => LastPushedFirst(plog, <<>>, 0)

\* two pushes, both given back in reverse before the source goes on, and an
\* iteration that ended
C22_Witness ==
    /\ data = <<"a">>
    /\ plog = <<<<"push", "x">>, <<"push", "y">>, <<"yield", "y">>, <<"yield", "x">>,
                <<"yield", "a">>, <<"end", "inner">>>>

----------------------------------------------------------------------------
(* its.py: one RewindIt, iterated by two generators (an outer loop and a   *)
(* loop nested in it, as in the module's test), with rewinds in between    *)

RewindToStart(p, amount) == 0

\* RewindIt.rewind(amount): the position afterwards; amount is None or a
\* number
Rewind(p, amount) ==
    IF IsNone(amount) THEN 0
    ELSE IF p - amount[1] < 0 THEN 0 ELSE p - amount[1]

----------------------------------------------------------------------------
(* Inputs of RewindIt *)

MaxCalls == 6

RewindSources == {<<>>, <<"a">>, <<"a", "s">>, <<"a", "s", "d">>}

RewindAmounts == {None, Some(1), Some(2)}

exRewind ==
    <<firstVars, mapVars, infoVars, frameVars, readerVars, procVars, deviceVars,
      blockVars, preitVars, lookupVars,
      debufVars,
      closeVars>>

ExRewindIdle ==
    /\ StreamIdle /\ IOIdle /\ EPIdle /\ MapIdle /\ InfoIdle /\ FrameIdle
    /\ ReaderIdle /\ ProcIdle /\ DeviceIdle /\ BlockIdle /\ PreItIdle
    /\ codecs \in CodecOrders /\ pixfmts = ListingOrder
    /\ LookupIdle
    /\ DebufIdle
    /\ CloseIdle

RewindInit ==
    /\ ExRewindIdle
    /\ rwSource \in RewindSources
    /\ rwHistory = <<>>
    /\ rwPos = 0
    /\ rwGens = [g \in Generators |-> "live"]
    /\ rwLog = <<>>

\* next() on generator g, r being what one turn of the generator's loop
\* gives; a yield is logged with the length of the history after it
RewindAdvance(g, r) ==
    /\ rwHistory' = r.history
    /\ rwPos' = r.pos
    /\ IF IsNone(r.obj)
       THEN /\ rwGens' = [rwGens EXCEPT ![g] = "ended"]
            /\ rwLog' = Append(rwLog, <<"end", g>>)
       ELSE /\ rwLog' = Append(rwLog, <<"yield", r.obj[1], Len(r.history)>>)
            /\ UNCHANGED rwGens

RewindYield(g) ==
    /\ Len(rwLog) < MaxCalls
    /\ rwGens[g] = "live"
    /\ RewindAdvance(g, RewindNext(rwHistory, rwPos, rwSource))
    /\ UNCHANGED <<rwSource, exRewind>>

\* it.rewind(amount), logged with the position and the length of the
\* history before it
RewindCall(amount) ==
    /\ Len(rwLog) < MaxCalls
    /\ rwPos' = Rewind(rwPos, amount)
    /\ rwLog' = Append(rwLog, <<"rewind", amount, rwPos, Len(rwHistory)>>)
    /\ UNCHANGED <<rwSource, rwHistory, rwGens, exRewind>>

RewindSpecNext ==
    \/ \E g \in Generators : RewindYield(g)
    \/ \E amount \in RewindAmounts : RewindCall(amount)

SpecRewind == RewindInit /\ [][RewindSpecNext]_vars

----------------------------------------------------------------------------
(* Claims about RewindIt *)

\* the items yielded by the first n entries of the log, in order
RECURSIVE YieldedIn(_)
YieldedIn(n) ==
    IF n = 0 THEN <<>>
    ELSE IF rwLog[n][1] = "yield" THEN Append(YieldedIn(n - 1), rwLog[n][2])
    ELSE YieldedIn(n - 1)

\* how many items rewind entry i of the log goes back: min(n, pos), and pos
\* without an amount
GoesBack(i) ==
    IF IsNone(rwLog[i][2]) \/ rwLog[i][2][1] > rwLog[i][3] THEN rwLog[i][3]
    ELSE rwLog[i][2][1]

\* the replays in the log: entry i a rewind, and entry i + j the j-th of the
\* yields that follow it directly, among those it goes back
Replays ==
    {<<i, j>> \in (1..Len(rwLog)) \X (1..Len(rwLog)) :
        /\ rwLog[i][1] = "rewind"
        /\ i + j <= Len(rwLog)
        /\ j <= GoesBack(i)
        /\ \A k \in i + 1..i + j : rwLog[k][1] = "yield"}

HistoryInPullOrder ==
    /\ Len(rwHistory) <= Len(rwSource)
    /\ rwHistory = SubSeq(rwSource, 1, Len(rwHistory))
    /\ 0 <= rwPos /\ rwPos <= Len(rwHistory)

----------------------------------------------------------------------------
(* Claims about the kind of record Stream.parse returns *)

\* the kind of record the type token of the parsed line asks for
KindAskedFor ==
    CASE sline.type = "Video" -> "VideoStream"
      [] sline.type = "Audio" -> "AudioStream"
      [] OTHER -> "Stream"

ReturnedOfKind ==
    /\ sobj.st = "ok"
    /\ sobj.name = sline.name
    /\ sobj.cls = KindAskedFor

\* C24 as stated: Stream.parse returns None for a line that does not match
\* the stream-line grammar, and for a matching line a record with the line's
\* identity, a VideoStream for type Video, an AudioStream for Audio, a plain
\* Stream for any other type token.
C24_RecordOfKindForEveryMatch ==
    spc = "done" =>
        IF StreamMatch(sline) THEN ReturnedOfKind ELSE sobj.st = "None"

\* C24, amended: the same, but a matching Video line for which no shape was
\* extracted gives no record, the constructor fails with AttributeError.
C24_RecordOfKindUnlessNoShape ==
    spc = "done" =>
        IF ~StreamMatch(sline) THEN sobj.st = "None"
        ELSE IF sline.type = "Video" /\ IsNone(sobj.shape)
        THEN sobj.st = "AttributeError"
        ELSE ReturnedOfKind

C24_Witness ==
    /\ spc = "done"
    /\ StreamMatch(sline)
    /\ sline.type = "Audio"
    /\ sobj.st = "ok" /\ sobj.cls = "AudioStream" /\ sobj.name = "0:1"

----------------------------------------------------------------------------
(* Claims about the forward pass of VideoStream *)

ValueOf(o, attr) ==
    CASE attr = "codec" -> o.codec
      [] attr = "pix_fmt" -> o.pix_fmt
      [] attr = "shape" -> o.shape
      [] attr = "fps" -> o.fps

\* the fields after the first n that match the pattern of attribute attr
MatchingAfter(attr, n) ==
    {j \in n + 1..Len(sobj.info) :
        ~IsNone(MatchAttr(attr, sobj.info[j], codecs, pixfmts))}

\* C25: VideoStream extracts codec, pix_fmt, shape and fps in that order in
\* one forward pass over the fields: the attribute extracted in a step is
\* taken from the first matching field after the fields consumed so far, the
\* fields up to that one are consumed (all the fields when none matches, the
\* attribute being None), and the other attributes are left as they are.
C25_SingleForwardPass ==
    [][(sk' = sk + 1 /\ sobj.type = "Video") =>
          /\ VideoAttrs[sk'] = <<"codec", "pix_fmt", "shape", "fps">>[sk']
          /\ sit' >= sit
          /\ IF MatchingAfter(VideoAttrs[sk'], sit) = {}
             THEN /\ sit' = Len(sobj.info)
                  /\ IsNone(ValueOf(sobj', VideoAttrs[sk']))
             ELSE /\ sit' = Min(MatchingAfter(VideoAttrs[sk'], sit))
                  /\ ValueOf(sobj', VideoAttrs[sk']) =
                         MatchAttr(VideoAttrs[sk'], sobj.info[sit'], codecs, pixfmts)
          /\ \A a \in {"codec", "pix_fmt", "shape", "fps"} \ {VideoAttrs[sk']} :
                 ValueOf(sobj', a) = ValueOf(sobj, a)]_vars

\* a geometry field stands before the field the codec was taken from, and
\* the shape, looked for after it, is not found
C25_Witness ==
    /\ spc = "done"
    /\ sobj.type = "Video"
    /\ ~IsNone(sobj.codec)
    /\ IsNone(sobj.shape)
    /\ Len(sobj.info) = 2
    /\ ~IsNone(MatchShape(sobj.info[1]))
    /\ ~IsNone(MatchVocab(codecs, sobj.info[2]))

----------------------------------------------------------------------------
(* info.py: lookups in a cached listing. A value of a record's fields is a  *)
(* text of digits as Header.process left it, or the number int() made of it *)

StrVal(t) == [type |-> "str", digits |-> t, int |-> 0]
IntVal(n) == [type |-> "int", digits |-> <<>>, int |-> n]

\* int(v)
IntOf(v) == IF v.type = "int" THEN v ELSE IntVal(ToInt(v.digits))

\* the record Header.process makes of a row: fields is None when the header
\* named no fields; desc is the description, its '(decoders: ...)' and
\* '(encoders: ...)' groups lexed
Row(name, desc, fields) ==
    [name |-> name, desc |-> desc, fields |-> fields,
     decoders |-> None, encoders |-> None]

\* Codecs.decoders.search(desc) / Codecs.encoders.search(desc): the names of
\* the first group of the kind in the description
GroupSearch(desc, key) ==
    LET hits == {i \in 1..Len(desc) : desc[i].key = key}
    IN  IF hits = {} THEN None ELSE Some(desc[Min(hits)].names)

\* Info._cvt: the record and the mapping afterwards
InfoCvt(m, name) == [ret |-> m[name], info |-> m]

\* PixFmts._cvt: d = dict(d) copies the record but not its fields, and the
\* loop stores int(v) in the fields the cached record shares with the copy
PixFmtsCvt(m, name) ==
    LET d == m[name] IN
    IF IsNone(d.fields) \/ DOMAIN d.fields[1] = {}
    THEN [ret |-> d, info |-> m]
    ELSE LET fields == [k \in DOMAIN d.fields[1] |-> IntOf(d.fields[1][k])]
         IN  [ret |-> [d EXCEPT !.fields = Some(fields)],
              info |-> [m EXCEPT ![name].fields = Some(fields)]]

\* Codecs._cvt: the copy gets the decoders and encoders of the description
CodecsCvt(m, name) ==
    LET d == m[name]
        dmatch == GroupSearch(d.desc, "decoders")
        ematch == GroupSearch(d.desc, "encoders")
    IN  [ret |-> [d EXCEPT !.decoders = dmatch, !.encoders = ematch],
         info |-> m]

Cvt(cls, m, name) ==
    CASE cls = "PixFmts" -> PixFmtsCvt(m, name)
      [] cls = "Codecs" -> CodecsCvt(m, name)
      [] OTHER -> InfoCvt(m, name)

----------------------------------------------------------------------------
(* Inputs of the lookups *)

MaxLookups == 3

Text(w) == [key |-> "text", names |-> <<w>>]
Group(key, names) == [key |-> key, names |-> names]

PixRow(name, nb, bpp) ==
    Row(name, <<Text("n")>>,
        Some([NB_COMPONENTS |-> StrVal(nb), BITS_PER_PIXEL |-> StrVal(bpp)]))

\* mappings as Info.__init__ caches them, with the class that caches them
CachedListings ==
    {[cls |-> "PixFmts",
      info |-> [n \in {"yuv420p", "bgr24"} |->
                  IF n = "yuv420p" THEN PixRow(n, <<"3">>, <<"1", "2">>)
                  ELSE PixRow(n, <<"3">>, <<"2", "4">>)]],
     [cls |-> "PixFmts",
      info |-> [n \in {"gray"} |-> Row(n, <<Text("1"), Text("8")>>, None)]],
     [cls |-> "Codecs",
      info |-> [n \in {"h264", "aac"} |->
                  IF n = "h264"
                  THEN Row(n, <<Text("H.264"), Group("decoders", <<"h264", "h264_qsv">>),
                                Group("encoders", <<"libx264">>)>>, None)
                  ELSE Row(n, <<Text("AAC")>>, None)]],
     [cls |-> "Info",
      info |-> [n \in {"yuv420p", "bgr24"} |->
                  IF n = "yuv420p" THEN PixRow(n, <<"3">>, <<"1", "2">>)
                  ELSE PixRow(n, <<"3">>, <<"2", "4">>)]]}

LookupNames == {"yuv420p", "bgr24", "gray", "h264", "aac", "nope"}

exLookup ==
    <<firstVars, mapVars, infoVars, frameVars, readerVars, procVars, deviceVars,
      blockVars, preitVars, rewindVars,
      debufVars,
      closeVars>>

ExLookupIdle ==
    /\ StreamIdle /\ IOIdle /\ EPIdle /\ MapIdle /\ InfoIdle /\ FrameIdle
    /\ ReaderIdle /\ ProcIdle /\ DeviceIdle /\ BlockIdle /\ PreItIdle
    /\ RewindIdle
    /\ codecs \in CodecOrders /\ pixfmts = ListingOrder
    /\ DebufIdle
    /\ CloseIdle

LookupInit ==
    /\ ExLookupIdle
    /\ \E c \in CachedListings :
          /\ lkClass = c.cls
          /\ lkInfo = c.info
          /\ lkAsCached = c.info
    /\ lkRet = [st |-> "none"]
    /\ lkCalls = <<>>

\* Info.__getitem__(name)
LookupGetItem(name) ==
    /\ Len(lkCalls) < MaxLookups
    /\ lkCalls' = Append(lkCalls, <<"__getitem__", name>>)
    /\ IF name \in DOMAIN lkInfo
       THEN /\ lkRet' = [st |-> "ok", val |-> Cvt(lkClass, lkInfo, name).ret]
            /\ lkInfo' = Cvt(lkClass, lkInfo, name).info
       ELSE /\ lkRet' = [st |-> "KeyError"]
            /\ UNCHANGED lkInfo
    /\ UNCHANGED <<lkClass, lkAsCached, exLookup>>

\* Info.get(name): the default None is returned as it is
LookupGet(name) ==
    /\ Len(lkCalls) < MaxLookups
    /\ lkCalls' = Append(lkCalls, <<"get", name>>)
    /\ IF name \in DOMAIN lkInfo
       THEN /\ lkRet' = [st |-> "ok", val |-> Cvt(lkClass, lkInfo, name).ret]
            /\ lkInfo' = Cvt(lkClass, lkInfo, name).info
       ELSE /\ lkRet' = [st |-> "None"]
            /\ UNCHANGED lkInfo
    /\ UNCHANGED <<lkClass, lkAsCached, exLookup>>

LookupNext ==
    \/ \E name \in LookupNames : LookupGetItem(name)
    \/ \E name \in LookupNames : LookupGet(name)

SpecLookup == LookupInit /\ [][LookupNext]_vars

----------------------------------------------------------------------------
(* Claims about lookups *)

\* C26: after a listing has been cached, lookups leave the cached mapping and
\* every record in it as they were.
C26_LookupsLeaveCacheUnchanged ==
    lkInfo = lkAsCached

----------------------------------------------------------------------------
(* debuf.py: the grab thread, the readers and the thread that detaches.    *)
(* Whatever __grabloop does between two grabs (sampling, sleeping), it    *)
(* calls _grab again and again and leaves at the first one that returns   *)
(* False.                                                                   *)

Readers == {"r1", "r2"}

\* `with cond:` can be entered by any thread at any time
FreeAlways(owner) == TRUE

\* `with cond:` can be entered when no thread holds the lock
Free(owner) == IsNone(owner)

\* Debuffer.ready
Ready(u, r) == u \/ ~r

\* cond.notify(): the waiters afterwards, one of them woken if there is any
Notified(ws) == IF ws = {} THEN {{}} ELSE {ws \ {w} : w \in ws}

----------------------------------------------------------------------------
(* Inputs of the Debuffer: a capture that gives at most MaxGrabs frames,   *)
(* and at most MaxReads calls of read                                       *)

MaxGrabs == 2

MaxReads == 3

exDebuf ==
    <<firstVars, mapVars, infoVars, frameVars, readerVars, procVars, deviceVars,
      blockVars, preitVars, rewindVars, lookupVars,
      closeVars>>

ExDebufIdle ==
    /\ StreamIdle /\ IOIdle /\ EPIdle /\ MapIdle /\ InfoIdle /\ FrameIdle
    /\ ReaderIdle /\ ProcIdle /\ DeviceIdle /\ BlockIdle /\ PreItIdle
    /\ RewindIdle /\ LookupIdle
    /\ codecs \in CodecOrders /\ pixfmts = ListingOrder
    /\ CloseIdle

\* Debuffer.__init__: the thread is started
DebufInit ==
    /\ ExDebufIdle
    /\ condOwner = None
    /\ condWaiters = {}
    /\ updated = FALSE
    /\ running = TRUE
    /\ capOpen = TRUE
    /\ capBusy = {}
    /\ grabs = 0
    /\ gpc = "loop"
    /\ rdpc = [r \in Readers |-> "idle"]
    /\ owpc = "made"
    /\ reads = <<>>

\* _grab up to the call of cap.grab(): the lock is taken, one waiter is
\* notified, and when _running is cleared the lock is released and False
\* returned, which ends __grabloop
GrabEnter ==
    /\ gpc = "loop"
    /\ Free(condOwner)
    /\ \E ws \in Notified(condWaiters) :
          /\ condWaiters' = ws
          /\ rdpc' = [r \in Readers |->
                        IF r \in condWaiters \ ws THEN "notified" ELSE rdpc[r]]
    /\ IF running
       THEN /\ condOwner' = Some("grab")
            /\ capBusy' = capBusy \cup {"grab"}
            /\ gpc' = "grabbing"
       ELSE /\ gpc' = "exit"
            /\ UNCHANGED <<condOwner, capBusy>>
    /\ UNCHANGED <<updated, running, capOpen, grabs, owpc, reads, exDebuf>>

\* cap.grab() returns ok, _updated is set to it, the lock is released
GrabDone(ok) ==
    /\ gpc = "grabbing"
    /\ ok => grabs < MaxGrabs
    /\ capBusy' = capBusy \ {"grab"}
    /\ updated' = ok
    /\ grabs' = IF ok THEN grabs + 1 ELSE grabs
    /\ condOwner' = None
    /\ gpc' = IF ok THEN "loop" ELSE "exit"
    /\ UNCHANGED <<condWaiters, running, capOpen, rdpc, owpc, reads, exDebuf>>

\* _grabloop, the finally clause: _running is cleared under the lock
GrabFinally ==
    /\ gpc = "exit"
    /\ Free(condOwner)
    /\ running' = FALSE
    /\ gpc' = "dead"
    /\ UNCHANGED <<condOwner, condWaiters, updated, capOpen, capBusy, grabs,
                   rdpc, owpc, reads, exDebuf>>

\* read, with the lock held and the condition decided: a frame is there and
\* retrieve is called, or there is none and (False, None) is returned, or
\* the reader waits
ReadDecide(r) ==
    IF ~Ready(updated, running)
    THEN /\ condWaiters' = condWaiters \cup {r}
         /\ rdpc' = [rdpc EXCEPT ![r] = "waiting"]
         /\ UNCHANGED <<condOwner, capBusy, reads>>
    ELSE IF ~updated
    THEN /\ rdpc' = [rdpc EXCEPT ![r] = "idle"]
         /\ reads' = Append(reads, [by |-> r, frame |-> None, st |-> "ok"])
         /\ UNCHANGED <<condOwner, condWaiters, capBusy>>
    ELSE IF ~capOpen
    THEN /\ rdpc' = [rdpc EXCEPT ![r] = "idle"]
         /\ reads' = Append(reads, [by |-> r, frame |-> None, st |-> "AttributeError"])
         /\ UNCHANGED <<condOwner, condWaiters, capBusy>>
    ELSE /\ condOwner' = Some(r)
         /\ capBusy' = capBusy \cup {"retrieve"}
         /\ rdpc' = [rdpc EXCEPT ![r] = "retrieving"]
         /\ UNCHANGED <<condWaiters, reads>>

\* read() is called and gets the lock
ReadEnter(r) ==
    /\ rdpc[r] = "idle"
    /\ Len(reads) + Cardinality({q \in Readers : rdpc[q] # "idle"}) < MaxReads
    /\ Free(condOwner)
    /\ ReadDecide(r)
    /\ UNCHANGED <<updated, running, capOpen, grabs, gpc, owpc, exDebuf>>

\* a notified reader gets the lock back and wait_for tests ready() again
ReadWake(r) ==
    /\ rdpc[r] = "notified"
    /\ Free(condOwner)
    /\ ReadDecide(r)
    /\ UNCHANGED <<updated, running, capOpen, grabs, gpc, owpc, exDebuf>>

\* cap.retrieve() returns the frame grabbed last, _updated is cleared and
\* the lock released
ReadRetrieved(r) ==
    /\ rdpc[r] = "retrieving"
    /\ capBusy' = capBusy \ {"retrieve"}
    /\ updated' = FALSE
    /\ condOwner' = None
    /\ rdpc' = [rdpc EXCEPT ![r] = "idle"]
    /\ reads' = Append(reads, [by |-> r, frame |-> Some(grabs), st |-> "ok"])
    /\ UNCHANGED <<condWaiters, running, capOpen, grabs, gpc, owpc, exDebuf>>

\* detach, up to the join: _running is cleared under the lock
DetachStop ==
    /\ owpc = "made"
    /\ Free(condOwner)
    /\ running' = FALSE
    /\ owpc' = "joining"
    /\ UNCHANGED <<condOwner, condWaiters, updated, capOpen, capBusy, grabs,
                   gpc, rdpc, reads, exDebuf>>

\* detach, after the join: the thread has ended, cap is set to None
DetachJoined ==
    /\ owpc = "joining"
    /\ gpc = "dead"
    /\ capOpen' = FALSE
    /\ owpc' = "detached"
    /\ UNCHANGED <<condOwner, condWaiters, updated, running, capBusy, grabs,
                   gpc, rdpc, reads, exDebuf>>

GrabThread == GrabEnter \/ (\E ok \in BOOLEAN : GrabDone(ok)) \/ GrabFinally

ReaderThread(r) == ReadEnter(r) \/ ReadWake(r) \/ ReadRetrieved(r)

DebufNext ==
    \/ GrabEnter
    \/ \E ok \in BOOLEAN : GrabDone(ok)
    \/ GrabFinally
    \/ \E r \in Readers : ReadEnter(r)
    \/ \E r \in Readers : ReadWake(r)
    \/ \E r \in Readers : ReadRetrieved(r)
    \/ DetachStop
    \/ DetachJoined

SpecDebuf == DebufInit /\ [][DebufNext]_vars

\* every thread that can take a step gets to take one: the grab thread and
\* the readers are threads of the operating system
SpecDebufFair ==
    /\ SpecDebuf
    /\ WF_vars(GrabThread)
    /\ \A r \in Readers : WF_vars(ReaderThread(r))

----------------------------------------------------------------------------
(* Claims about the Debuffer *)

\* C27: every read() that waits returns in the end, whatever the
\* interleaving: a waiting reader is woken and leaves read().
C27_WaitingReaderReturns ==
    \A r \in Readers : (rdpc[r] = "waiting") ~> (rdpc[r] = "idle")

\* C28: cap.grab() and cap.retrieve() are never in progress at the same
\* time, and no grabbed frame is returned by two read() calls.
C28_GrabRetrieveExcludeAndFrameOnce ==
    /\ capBusy # {"grab", "retrieve"}
    /\ \A i, j \in 1..Len(reads) :
           (i < j /\ ~IsNone(reads[i].frame) /\ ~IsNone(reads[j].frame)) =>
               reads[i].frame # reads[j].frame

\* both frames of the capture have been returned, one to each reader
C28_Witness ==
    /\ Len(reads) = 2
    /\ reads[1].frame = Some(1) /\ reads[2].frame = Some(2)
    /\ reads[1].by # reads[2].by

----------------------------------------------------------------------------
(* Claims about the size of the frame buffer *)

\* BITS_PER_PIXEL as ffmpeg -pix_fmts lists it for the formats frameinfo
\* knows by name
ListedBits(name) ==
    CASE name \in {"bgr24", "rgb24", "yuv444p", "yuvj444p"} -> 24
      [] name \in {"yuv422p", "yuyv422", "uyvy422", "yvyu422"} -> 16
      [] name \in {"yuv420p", "nv12", "yuvj420p"} -> 12

\* the formats known by name have three components
AsListed(pf) ==
    pf.name \in NamedFormats => (pf.nchan = 3 /\ pf.bppx = ListedBits(pf.name))

\* C29: whenever frameinfo returns a layout for a pixel format as ffmpeg
\* lists it, the buffer has the bits of exactly one frame: the product of the
\* shape times the element width is bitsPerPixel * width * height.
C29_BufferHoldsOneFrame ==
    (fpc = "return" /\ fres.st = "ok" /\ AsListed(fdesc)) =>
        Product(fres.shape) * fres.bits = fdesc.bppx * fwidth * fheight

----------------------------------------------------------------------------
(* ffmpeg.py: closing. The object is a record of the attributes close      *)
(* reads: istream is "PIPE", the file given or the FDWrap file made of it; *)
(* proc is None or the process; ended is what was done to the process      *)

\* the object as __init__ leaves it when it returns: FFmpegProc.__init__
\* with the istream it is passed, and _terminate as FFmpegReader.__init__
\* sets it (None for the classes that have no such attribute)
Constructed(cls, given, wrap) ==
    [cls |-> cls,
     istream |-> IF cls = "FFmpegWriter" \/ ~given THEN "PIPE"
                 ELSE IF cls = "FFmpegReader" /\ wrap THEN "fdwrap" ELSE "file",
     istreamOpen |-> (cls # "FFmpegWriter" /\ given
                        /\ ~(cls = "FFmpegReader" /\ wrap)),
     terminate |-> IF cls # "FFmpegReader" THEN None ELSE Some(~(given /\ wrap)),
     proc |-> Some([stdin |-> (cls = "FFmpegWriter" \/ ~given)]),
     eforward |-> Some("forwarding"),
     ended |-> <<>>]

\* FFmpegProc.close: nothing when proc is None; otherwise communicate, with
\* 'qqqq' when the process has a stdin pipe, stop the forwarder, and forget
\* both
ProcClose(o) ==
    IF IsNone(o.proc) THEN [st |-> "ok", obj |-> o]
    ELSE [st |-> "ok",
          obj |-> [o EXCEPT !.proc = None, !.eforward = None,
                            !.ended = Append(@, IF o.proc[1].stdin
                                                THEN "communicate(b'qqqq')"
                                                ELSE "communicate()")]]

\* FFmpegReader.close: an istream that is not the pipe is closed, the
\* process is terminated when _terminate is set, which fails when proc is
\* None, and then FFmpegProc.close
ReaderClose(o) ==
    IF o.istream = "PIPE" THEN ProcClose(o)
    ELSE IF o.terminate = Some(TRUE) /\ IsNone(o.proc)
    THEN [st |-> "AttributeError", obj |-> [o EXCEPT !.istreamOpen = FALSE]]
    ELSE IF o.terminate = Some(TRUE)
    THEN ProcClose([o EXCEPT !.istreamOpen = FALSE,
                             !.ended = Append(@, "terminate()")])
    ELSE ProcClose([o EXCEPT !.istreamOpen = FALSE])

\* the closing call `via` on the object: __exit__ and __del__ call
\* self.close(), the close of the object's class, while release is bound in
\* the body of FFmpegProc to FFmpegProc.close for every class
CloseOf(o, via) ==
    IF o.cls = "FFmpegReader" /\ via # "release" THEN ReaderClose(o)
    ELSE ProcClose(o)

----------------------------------------------------------------------------
(* Inputs of closing *)

MaxCloses == 3

Classes == {"FFmpegProc", "FFmpegReader", "FFmpegWriter"}

\* the closing calls
Closers == {"close", "release", "__exit__", "__del__"}

exClose ==
    <<firstVars, mapVars, infoVars, frameVars, readerVars, procVars, deviceVars,
      blockVars, preitVars, rewindVars, lookupVars, debufVars>>

ExCloseIdle ==
    /\ StreamIdle /\ IOIdle /\ EPIdle /\ MapIdle /\ InfoIdle /\ FrameIdle
    /\ ReaderIdle /\ ProcIdle /\ DeviceIdle /\ BlockIdle /\ PreItIdle
    /\ RewindIdle /\ LookupIdle /\ DebufIdle
    /\ codecs \in CodecOrders /\ pixfmts = ListingOrder

CloseInit ==
    /\ ExCloseIdle
    /\ \E cls \in Classes, given \in BOOLEAN, wrap \in BOOLEAN :
          cobj = Constructed(cls, given, wrap)
    /\ clog = <<>>

\* one of close(), release(), __exit__() and __del__() is called
CloseCall(via) ==
    /\ Len(clog) < MaxCloses
    /\ cobj' = CloseOf(cobj, via).obj
    /\ clog' = Append(clog, [via |-> via, st |-> CloseOf(cobj, via).st,
                             obj |-> CloseOf(cobj, via).obj])
    /\ UNCHANGED exClose

CloseNext == \E via \in Closers : CloseCall(via)

SpecClose == CloseInit /\ [][CloseNext]_vars

----------------------------------------------------------------------------
(* Claims about closing *)

\* C30: a closing call on an object that has been closed already does
\* nothing and raises no error, whatever the class and however it was made.
C30_CloseIdempotent ==
    \A i \in 2..Len(clog) :
        /\ clog[i].st = "ok"
        /\ clog[i].obj = clog[i - 1].obj

====
